---- MODULE Spec2Model ----
(***************************************************************************)
(* Brute-force password search: the serial, OpenMP, MPI and CUDA programs  *)
(* of the repository as state machines.                                    *)
(*                                                                         *)
(* Scaling.  The programs enumerate 26^length candidates, poll every 50000 *)
(* iterations, flush attempt counters every 10000 and give every CUDA lane *)
(* 100 candidates.  Exhaustive exploration of the interleavings needs      *)
(* small numbers, so the model runs the same code built with the first     *)
(* charset_size symbols of CHARSET (charset_size is an input of a run, 26  *)
(* included where the keyspace stays small) and with small intervals.  All *)
(* of these are named; every formula is stated in terms of the names.      *)
(***************************************************************************)
EXTENDS Integers, Sequences, FiniteSets, TLC

\* ------------------------------------------------------------------------
\* Program constants
\* ------------------------------------------------------------------------
\* #define CHARSET "abcdefghijklmnopqrstuvwxyz"
CHARSET ==
    << "a", "b", "c", "d", "e", "f", "g", "h", "i", "j", "k", "l", "m",
       "n", "o", "p", "q", "r", "s", "t", "u", "v", "w", "x", "y", "z" >>

\* #define CHARSET_SIZE 26.  A run of the model is a run of the program
\* built with the first charset_size symbols of CHARSET (see CharsetSizes).
CHARSET_SIZE == 26

\* #define MAX_PASSWORD_LENGTH 10
MAX_PASSWORD_LENGTH == 10

\* unsigned long long check_interval = 50000 (mpi_crack); scaled.
check_interval == 2

\* `local_attempts % 10000 == 0` (OpenMP) and `attempts % 10000 == 0`
\* (serial): the progress interval; scaled.
PROGRESS_INTERVAL == 2

\* unsigned long long passwords_per_thread = 100 (crack_password_cuda); scaled.
passwords_per_thread == 2

\* Integer widths.  TLC computes with 32-bit integers, so the 64 bits of
\* unsigned long long and the 32 bits of unsigned int are scaled to 30 and 15
\* bits: ULL is the modulus of unsigned long long arithmetic, UINT the
\* modulus of unsigned int arithmetic.
ULL == 2^30
UINT == 2^15

\* ------------------------------------------------------------------------
\* Bounds of the model
\* ------------------------------------------------------------------------
\* Alphabet sizes, per program: the searches run over two symbols, the
\* enumeration of the keyspace also over three and over all of CHARSET.
\* The functions called on their own run over all of CHARSET.
CharsetSizes(v) ==
    IF v = "decode" THEN {2, 3, CHARSET_SIZE}
    ELSE IF v = "call" THEN {CHARSET_SIZE}
    ELSE IF v = "cuda" THEN {2, 3}
    ELSE {2}
\* Password lengths searched, per program.  With two symbols these are
\* keyspaces of 2, 4 and 8 candidates; the many-thread and the many-lane
\* interleavings are explored over the two smaller ones.
SearchLengths(v) == IF v \in {"openmp", "cuda"} THEN {1, 2} ELSE {1, 2, 3}
\* The CUDA program also searches the three candidates of length 1 over
\* three symbols: a keyspace that is not a multiple of passwords_per_thread,
\* so that the last lane's run extends past its end.
OddKeyspace(size, length) == size = 3 => length = 1
\* The MPI program also searches the next longer keyspace (16 candidates),
\* with no candidate matching: the runs in which rank 0 polls many times.
ExhaustedLengths(v) == IF v = "mpi" THEN {4} ELSE {}
\* The decode specification enumerates the keyspaces of the lengths up to
\* MaxDecodeLen that have at most MaxDecodeSize candidates.
MaxDecodeLen == 6
MaxDecodeSize == 729
\* At most MaxMatches candidates share the target's fingerprint.
MaxMatches == 2
\* OpenMP threads: 1..MaxThreads.
MaxThreads == 2
\* MPI ranks: 1..MaxRanks, and one more for the keyspaces of length 1 (two
\* candidates): the runs in which ranks own no index at all.
MaxRanks == 2
WorldSizes(length) == 1..(IF length = 1 THEN MaxRanks + 1 ELSE MaxRanks)
\* CUDA threads per block: 1..MaxTPB; user-specified blocks: 1..MaxBlocks.
MaxTPB == 2
MaxBlocks == 1

\* ------------------------------------------------------------------------
\* Strings and buffers
\* ------------------------------------------------------------------------
\* A function that has not returned, a progress line or a final report that
\* has not been printed.
NOT_RETURNED == 0 - 1
NOTHING_PRINTED == 0 - 1
NO_REPORT == [status |-> "none"]

\* The terminator '\0' and the content of memory never written.
NUL == "NUL"
UNINIT == "?"

\* A char array of n bytes, not initialised.
Buffer(n) == [j \in 1..n |-> UNINIT]

\* The C string held by a buffer: the bytes before the first terminator
\* (what strlen/printf("%s")/strcpy read).
CString(buf) ==
    IF \E k \in 1..Len(buf) : buf[k] = NUL
    THEN LET n == CHOOSE k \in 1..Len(buf) :
                    /\ buf[k] = NUL
                    /\ \A j \in 1..(k - 1) : buf[j] # NUL
         IN  SubSeq(buf, 1, n - 1)
    ELSE buf

\* The number of symbols the program is built with (its CHARSET_SIZE).
VARIABLES charset_size

\* The symbols the enumeration uses, and every string of a given length.
Alphabet == { CHARSET[k] : k \in 1..charset_size }
Candidates(length) == [1..length -> Alphabet]

\* ------------------------------------------------------------------------
\* Keyspace model (identical in the four programs)
\* ------------------------------------------------------------------------
\* for (int i = length - 1; i >= 0; i--) {
\*     password[i] = CHARSET[num % CHARSET_SIZE]; num /= CHARSET_SIZE; }
RECURSIVE number_to_password_loop(_, _, _)
number_to_password_loop(num, password, i) ==
    IF i >= 0
    THEN number_to_password_loop(
             num \div charset_size,
             [password EXCEPT ![i + 1] = CHARSET[(num % charset_size) + 1]],
             i - 1)
    ELSE password

\* Mutant: the digit is taken but num is never divided.
RECURSIVE number_to_password_nodiv(_, _, _)
number_to_password_nodiv(num, password, i) ==
    IF i >= 0
    THEN number_to_password_nodiv(
             num,
             [password EXCEPT ![i + 1] = CHARSET[(num % charset_size) + 1]],
             i - 1)
    ELSE password

MutNumberToPassword(num, password, length) ==
    [number_to_password_nodiv(num, password, length - 1)
        EXCEPT ![length + 1] = NUL]

\* Mutant: num is divided before its digit is taken.
RECURSIVE number_to_password_divfirst(_, _, _)
number_to_password_divfirst(num, password, i) ==
    IF i >= 0
    THEN number_to_password_divfirst(
             num \div charset_size,
             [password EXCEPT ![i + 1] = CHARSET[((num \div charset_size) % charset_size) + 1]],
             i - 1)
    ELSE password

MutNumberToPasswordDivFirst(num, password, length) ==
    [number_to_password_divfirst(num, password, length - 1)
        EXCEPT ![length + 1] = NUL]

\* void number_to_password(unsigned long long num, char* password, int length)
\* The buffer after the call (C index i is element i + 1).
number_to_password(num, password, length) ==
    [number_to_password_loop(num, password, length - 1)
        EXCEPT ![length + 1] = NUL]

\* __device__ void index_to_password(unsigned long long index, char*, int)
RECURSIVE index_to_password_loop(_, _, _)
index_to_password_loop(index, password, i) ==
    IF i >= 0
    THEN index_to_password_loop(
             index \div charset_size,
             [password EXCEPT ![i + 1] = CHARSET[(index % charset_size) + 1]],
             i - 1)
    ELSE password

\* Mutant: the digits are written from the left, least significant first.
RECURSIVE index_to_password_lsdfirst(_, _, _, _)
index_to_password_lsdfirst(index, password, i, length) ==
    IF i < length
    THEN index_to_password_lsdfirst(
             index \div charset_size,
             [password EXCEPT ![i + 1] = CHARSET[(index % charset_size) + 1]],
             i + 1, length)
    ELSE password

MutIndexToPassword(index, password, length) ==
    [index_to_password_lsdfirst(index, password, 0, length)
        EXCEPT ![length + 1] = NUL]

index_to_password(index, password, length) ==
    [index_to_password_loop(index, password, length - 1)
        EXCEPT ![length + 1] = NUL]

\* a * b in unsigned long long arithmetic (the product modulo ULL), computed
\* by repeated addition so that no intermediate value leaves TLC's integers.
RECURSIVE MulULL(_, _)
MulULL(a, b) == IF b = 0 THEN 0 ELSE (a + MulULL(a, b - 1)) % ULL

\* unsigned long long total = 1;
\* for (int i = 0; i < length; i++) total *= CHARSET_SIZE;
RECURSIVE calculate_combinations_loop(_, _, _)
calculate_combinations_loop(total, i, length) ==
    IF i < length
    THEN calculate_combinations_loop(MulULL(total, charset_size), i + 1, length)
    ELSE total

calculate_combinations(length) == calculate_combinations_loop(1, 0, length)

\* ------------------------------------------------------------------------
\* State
\* ------------------------------------------------------------------------
VARIABLES
    \* which program runs, and its inputs
    variant,            \* "serial", "openmp", "mpi", "cuda" or "decode"
    password_length,    \* int password_length / length
    md5,                \* the fingerprint oracle MD5(): candidate -> digest
    target_hash,        \* unsigned char target_hash[MD5_DIGEST_LENGTH]
    \* enumeration of the keyspace (decode specification)
    dec_table,          \* number_to_password(0), number_to_password(1), ...
    idx_table,          \* index_to_password(0), index_to_password(1), ...
    \* crack_password_serial
    s_pc,               \* "loop" or "done"
    s_i,                \* unsigned long long i
    s_attempts,         \* unsigned long long attempts
    s_guess,            \* char guess[MAX_PASSWORD_LENGTH]
    s_found,            \* int found
    s_ret,              \* the value returned (NOT_RETURNED while running)
    s_progress,         \* the last "Progress: %llu" printed
    s_out,              \* the final report printed
    \* crack_password_parallel (OpenMP)
    omp_threads,        \* the team size (OMP_NUM_THREADS)
    omp_cancellation,   \* whether cancellation is activated (OMP_CANCELLATION)
    o_next,             \* schedule(dynamic): the next iteration not handed out
    o_found,            \* int found (shared)
    o_found_at,         \* unsigned long long found_at (shared)
    o_found_password,   \* char found_password[MAX_PASSWORD_LENGTH + 1] (shared)
    o_attempts,         \* unsigned long long attempts (shared)
    o_progress,         \* the last "Progress: %llu" printed
    o_pc,               \* per thread: where it is in the parallel region
    o_i,                \* per thread: the iteration it executes
    o_guess,            \* per thread: char guess[MAX_PASSWORD_LENGTH + 1]
    o_local_attempts,   \* per thread: unsigned long long local_attempts
    o_j,                \* per thread: the byte strcpy copies next
    o_evaluated,        \* per thread: how many candidates it has hashed (history)
    o_after,            \* how many candidates were hashed, while found was 1, by
                        \* threads that had not set it; counted up to omp_threads
                        \* (history)
    o_finders,          \* the threads that executed `found = 1` (history)
    o_ret,              \* the value returned (NOT_RETURNED while running)
    o_out,              \* the final report printed
    \* mpi_crack, one per rank
    world_size,         \* MPI_Comm_size
    mpi_eager,          \* whether MPI_Send buffers the one-int message (else it
                        \* completes when the peer receives it)
    m_pc,               \* per rank: where it is in mpi_crack
    m_i,                \* per rank: unsigned long long i
    m_counter,          \* per rank: unsigned long long counter
    m_local_count,      \* per rank: unsigned long long local_count
    m_guess,            \* per rank: char guess[MAX_PASSWORD_LENGTH + 1]
    m_p,                \* per rank: int p of the loop it is in
    m_total_progress,   \* rank 0: unsigned long long total_progress
    m_progress,         \* rank 0: the last "Progress: %llu" printed
    m_reported,         \* per rank: the "Password = %s" it printed
    m_last,             \* rank 0, per worker: the last count received from it (history)
    m_elapsed_printed,  \* main, rank 0: "Time elapsed" has been printed
    m_ret,              \* per rank: the value returned (NOT_RETURNED while running)
    term_box,           \* per rank: sources of the TERMINATE_TAG messages waiting
    prog_box,           \* per source: the PROGRESS_TAG messages waiting at rank 0
    m_visited,          \* per rank: the indices it has evaluated (history)
    m_since,            \* per rank: candidates evaluated while a terminate
                        \* message was waiting in its mailbox (history)
    \* crack_password_cuda and crack_password_kernel
    threads_per_block,  \* int threads_per_block (argv[1])
    num_blocks,         \* int num_blocks (argv[2], 0 = auto-calculate)
    blocks,             \* int blocks, the grid size of the launch
    d_found_flag,       \* device: int* found_flag
    d_result_password,  \* device: char* result_password
    d_found_at_index,   \* device: unsigned long long* found_at_index
    k_pc,               \* per lane: where it is in the kernel
    k_my_start,         \* per lane: unsigned long long my_start
    k_i,                \* per lane: unsigned long long i
    k_password,         \* per lane: char password[MAX_PASSWORD_LENGTH + 1]
    k_current_index,    \* per lane: unsigned long long current_index
    k_visited,          \* per lane: the indices it has evaluated (history)
    k_winners,          \* the lanes whose atomicCAS returned 0 (history)
    k_late,             \* per lane: candidates it began after found_flag was 1 (history)
    h_err,              \* host: cudaError_t err of the launch, as cudaGetLastError gives it
    h_pc,               \* host: "launch", "kernel" while it waits for the kernel, then "done"
    h_found,            \* host: int found
    h_result_password,  \* host: char result_password[MAX_PASSWORD_LENGTH + 1]
    h_found_at_index,   \* host: unsigned long long found_at_index
    h_ret               \* the value returned (NOT_RETURNED while running)

inputVars == << variant, charset_size, password_length, md5, target_hash >>
decodeVars == << dec_table, idx_table >>
serialVars == << s_pc, s_i, s_attempts, s_guess, s_found, s_ret, s_progress, s_out >>
ompVars ==
    << omp_threads, omp_cancellation, o_next, o_found, o_found_at, o_found_password,
       o_attempts, o_progress, o_pc, o_i, o_guess, o_local_attempts, o_j,
       o_evaluated, o_after, o_finders, o_ret, o_out >>
mpiVars ==
    << world_size, mpi_eager, m_last, m_elapsed_printed, m_pc, m_i, m_counter, m_local_count, m_guess, m_p,
       m_total_progress, m_progress, m_reported, m_ret, term_box, prog_box,
       m_visited, m_since >>
cudaVars ==
    << threads_per_block, num_blocks, blocks, h_err, d_found_flag, d_result_password,
       d_found_at_index, k_pc, k_my_start, k_i, k_password, k_current_index,
       k_visited, k_winners, k_late,
       h_pc, h_found, h_result_password, h_found_at_index, h_ret >>
\* The main functions (validation of the typed password).
VARIABLES
    main_program,       \* whose main runs: "serial", "openmp", "mpi" or "cuda"
    main_input,         \* the token typed on standard input
    main_pc,            \* "scanf", "validate", "crack", then "exit" or "killed"
    main_password,      \* char password[MAX_PASSWORD_LENGTH + 1] as a C string
    main_called,        \* the search function has been called (history)
    main_exit           \* the value returned by main (NOT_RETURNED before)

\* The keyspace functions called on their own.
VARIABLES
    f_pc,               \* which function is called next
    f_caller,           \* the function whose guess array number_to_password is given
    f_index,            \* unsigned long long num / index (argument)
    f_total,            \* the value returned by calculate_combinations
    f_password,         \* the buffer after number_to_password
    f_dev_password,     \* the buffer after index_to_password
    f_overrun           \* the programs in which a call wrote outside its array (history)

\* The launch arithmetic of crack_password_cuda at its real widths.
VARIABLES
    g_pc,               \* "blocks", "lane", then "done"
    g_tpb,              \* int threads_per_block
    g_quotient,         \* (threads_needed + threads_per_block - 1) / threads_per_block
    g_blocks,           \* int blocks
    g_thread_id         \* unsigned long long thread_id of the last lane of the grid

mainVars == << main_program, main_input, main_pc, main_password, main_called, main_exit >>
callVars == << f_pc, f_caller, f_index, f_total, f_password, f_dev_password, f_overrun >>
launchVars == << g_pc, g_tpb, g_quotient, g_blocks, g_thread_id >>
vars ==
    << inputVars, decodeVars, serialVars, ompVars, mpiVars, cudaVars, mainVars,
       callVars, launchVars >>

\* ------------------------------------------------------------------------
\* The fingerprint oracle
\* ------------------------------------------------------------------------
\* MD5 is a library function; the programs only compare its result with
\* the target digest, so a digest is either the target's or another one.
TARGET_DIGEST == "target"
OTHER_DIGEST == "other"

RECURSIVE SubsetsUpTo(_, _)
SubsetsUpTo(S, k) ==
    IF k = 0
    THEN { {} }
    ELSE LET R == SubsetsUpTo(S, k - 1)
         IN  R \cup { r \cup {x} : r \in R, x \in S }

\* Every oracle under which at most MaxMatches candidates of the length
\* have the target's fingerprint (more than one: colliding fingerprints).
Oracles(length) ==
    { [c \in Candidates(length) |-> IF c \in M THEN TARGET_DIGEST ELSE OTHER_DIGEST]
        : M \in SubsetsUpTo(Candidates(length), MaxMatches) }

\* void generate_hash(const char* password, unsigned char* hash)
\*     MD5((unsigned char*)password, strlen(password), hash);
generate_hash(password) ==
    IF CString(password) \in DOMAIN md5 THEN md5[CString(password)] ELSE OTHER_DIGEST

total_combinations == calculate_combinations(password_length)

\* The indices whose candidate has the target's fingerprint.
Matching ==
    { k \in 0..(total_combinations - 1) :
        generate_hash(number_to_password(k, Buffer(MAX_PASSWORD_LENGTH + 1),
                                         password_length)) = target_hash }

\* Values of the variables of the programs that do not run.
IdleDecode == dec_table = << >> /\ idx_table = << >>
IdleSerial ==
    /\ s_pc = "off" /\ s_i = 0 /\ s_attempts = 0 /\ s_guess = << >>
    /\ s_found = 0 /\ s_ret = NOT_RETURNED /\ s_progress = NOTHING_PRINTED /\ s_out = NO_REPORT

InitInputs(v) ==
    /\ variant = v
    /\ charset_size \in CharsetSizes(v)
    /\ password_length \in SearchLengths(v) \cup ExhaustedLengths(v)
    /\ OddKeyspace(charset_size, password_length)
    /\ md5 \in IF password_length \in SearchLengths(v)
               THEN Oracles(password_length)
               ELSE { [c \in Candidates(password_length) |-> OTHER_DIGEST] }
    /\ target_hash = TARGET_DIGEST

\* ------------------------------------------------------------------------
\* Keyspace enumeration (the decode functions applied to 0, 1, 2, ...)
\* ------------------------------------------------------------------------
\* charset_size^length <= cap, computed without leaving TLC's integers.
RECURSIVE KeyspaceWithin(_, _)
KeyspaceWithin(cap, length) ==
    IF length = 0 THEN cap >= 1 ELSE KeyspaceWithin(cap \div charset_size, length - 1)

InitDecode ==
    /\ variant = "decode"
    /\ charset_size \in CharsetSizes("decode")
    /\ password_length \in { L \in 1..MaxDecodeLen : KeyspaceWithin(MaxDecodeSize, L) }
    /\ md5 = << >>
    /\ target_hash = TARGET_DIGEST
    /\ dec_table = << >> /\ idx_table = << >>

DecodeNext ==
    /\ variant = "decode"
    /\ Len(dec_table) < total_combinations
    /\ dec_table' = Append(dec_table,
           CString(number_to_password(Len(dec_table),
                                      Buffer(MAX_PASSWORD_LENGTH + 1), password_length)))
    /\ idx_table' = Append(idx_table,
           CString(index_to_password(Len(idx_table),
                                     Buffer(MAX_PASSWORD_LENGTH + 1), password_length)))
    /\ UNCHANGED << inputVars, mainVars, callVars, launchVars, serialVars, ompVars, mpiVars, cudaVars >>

\* ------------------------------------------------------------------------
\* Serial program: crack_password_serial
\* ------------------------------------------------------------------------
InitSerialVars ==
    /\ s_pc = "loop"
    /\ s_i = 0
    /\ s_attempts = 0
    /\ s_guess = Buffer(MAX_PASSWORD_LENGTH)
    /\ s_found = 0
    /\ s_ret = NOT_RETURNED
    /\ s_progress = NOTHING_PRINTED
    /\ s_out = NO_REPORT

\* Mutant: the loop advances by two.
MutSerialStep(i) == (i + 2) % ULL

\* `i++` of `for (i = 0; i < total_combinations; i++)`.
SerialStep(i) == (i + 1) % ULL

\* Mutant: every candidate counts twice.
MutSerialCount(attempts) == (attempts + 2) % ULL

\* attempts++;
SerialCount(attempts) == (attempts + 1) % ULL

\* One iteration of `for (i = 0; i < total_combinations; i++)`.
SerialIterate ==
    /\ variant = "serial"
    /\ s_pc = "loop"
    /\ s_i < total_combinations
    /\ LET guess == number_to_password(s_i, s_guess, password_length)
           attempts == SerialCount(s_attempts)
       IN  /\ s_guess' = guess
           /\ s_attempts' = attempts
           /\ IF generate_hash(guess) = target_hash
              THEN /\ s_found' = 1
                   /\ s_out' = [status |-> "found", password |-> CString(guess),
                                attempt |-> attempts]
                   /\ s_ret' = 1
                   /\ s_pc' = "done"
                   /\ UNCHANGED << s_i, s_progress >>
              ELSE /\ s_progress' =
                          IF attempts % PROGRESS_INTERVAL = 0 THEN attempts ELSE s_progress
                   /\ s_i' = SerialStep(s_i)
                   /\ UNCHANGED << s_found, s_out, s_ret, s_pc >>
    /\ UNCHANGED << inputVars, mainVars, callVars, launchVars, decodeVars, ompVars, mpiVars, cudaVars >>

\* The loop ends without a match: report and return 0.
SerialExhausted ==
    /\ variant = "serial"
    /\ s_pc = "loop"
    /\ s_i >= total_combinations
    /\ s_out' = IF s_found = 0
                THEN [status |-> "not found", attempts |-> s_attempts]
                ELSE s_out
    /\ s_ret' = 0
    /\ s_pc' = "done"
    /\ UNCHANGED << s_i, s_attempts, s_guess, s_found, s_progress >>
    /\ UNCHANGED << inputVars, mainVars, callVars, launchVars, decodeVars, ompVars, mpiVars, cudaVars >>

\* ------------------------------------------------------------------------
\* OpenMP program: crack_password_parallel
\* ------------------------------------------------------------------------
Threads == 0..(omp_threads - 1)

InitOmpVars ==
    /\ omp_threads \in 1..MaxThreads
    /\ omp_cancellation \in BOOLEAN
    /\ o_next = 0
    /\ o_found = 0
    /\ o_found_at = 0
    /\ o_found_password = Buffer(MAX_PASSWORD_LENGTH + 1)
    /\ o_attempts = 0
    /\ o_progress = NOTHING_PRINTED
    /\ o_pc = [t \in Threads |-> "next"]
    /\ o_i = [t \in Threads |-> 0]
    /\ o_guess = [t \in Threads |-> Buffer(MAX_PASSWORD_LENGTH + 1)]
    /\ o_local_attempts = [t \in Threads |-> 0]
    /\ o_j = [t \in Threads |-> 0]
    /\ o_evaluated = [t \in Threads |-> 0]
    /\ o_after = 0
    /\ o_finders = {}
    /\ o_ret = NOT_RETURNED
    /\ o_out = NO_REPORT

\* Where a thread goes at the end of the loop body: to the progress block when
\* `local_attempts % 10000 == 0`, else to the next iteration.
OmpAfterBody(local_attempts) ==
    IF local_attempts % PROGRESS_INTERVAL = 0 THEN "progress" ELSE "next"

\* `#pragma omp cancel for`: the thread leaves the loop when cancellation is
\* activated, and the directive does nothing when it is not.
OmpCancelFor(continue_at) ==
    IF omp_cancellation THEN "barrier" ELSE continue_at

\* schedule(dynamic): the thread takes the next iteration, or leaves the loop.
OmpNextIteration(t) ==
    /\ variant = "openmp"
    /\ o_pc[t] = "next"
    /\ IF o_next < total_combinations
       THEN /\ o_i' = [o_i EXCEPT ![t] = o_next]
            /\ o_next' = o_next + 1
            /\ o_pc' = [o_pc EXCEPT ![t] = "check"]
       ELSE /\ o_pc' = [o_pc EXCEPT ![t] = "barrier"]
            /\ UNCHANGED << o_i, o_next >>
    /\ UNCHANGED << omp_threads, omp_cancellation, o_found, o_found_at,
                    o_found_password, o_attempts, o_progress, o_guess,
                    o_local_attempts, o_j, o_evaluated, o_after, o_finders, o_ret, o_out >>
    /\ UNCHANGED << inputVars, mainVars, callVars, launchVars, decodeVars, serialVars, mpiVars, cudaVars >>

\* if (found) { #pragma omp cancel for }
OmpCheckFound(t) ==
    /\ variant = "openmp"
    /\ o_pc[t] = "check"
    /\ o_pc' = [o_pc EXCEPT ![t] = IF o_found # 0 THEN OmpCancelFor("eval") ELSE "eval"]
    /\ UNCHANGED << omp_threads, omp_cancellation, o_next, o_found, o_found_at,
                    o_found_password, o_attempts, o_progress, o_i, o_guess,
                    o_local_attempts, o_j, o_evaluated, o_after, o_finders, o_ret, o_out >>
    /\ UNCHANGED << inputVars, mainVars, callVars, launchVars, decodeVars, serialVars, mpiVars, cudaVars >>

\* Mutant: the comparison succeeds on every fingerprint.
MutOmpMatch(guess_hash) == TRUE

\* memcmp(guess_hash, target_hash, MD5_DIGEST_LENGTH) == 0
OmpMatch(guess_hash) == guess_hash = target_hash

\* number_to_password; generate_hash; local_attempts++; memcmp; found = 1.
OmpEvaluate(t) ==
    /\ variant = "openmp"
    /\ o_pc[t] = "eval"
    /\ LET guess == number_to_password(o_i[t], o_guess[t], password_length)
           local_attempts == (o_local_attempts[t] + 1) % ULL
       IN  /\ o_guess' = [o_guess EXCEPT ![t] = guess]
           /\ o_local_attempts' = [o_local_attempts EXCEPT ![t] = local_attempts]
           /\ o_evaluated' = [o_evaluated EXCEPT ![t] = @ + 1]
           /\ o_after' = IF o_found # 0 /\ t \notin o_finders /\ o_after < omp_threads
                         THEN o_after + 1
                         ELSE o_after
           /\ IF OmpMatch(generate_hash(guess))
              THEN /\ o_found' = 1
                   /\ o_finders' = o_finders \cup {t}
                   /\ o_pc' = [o_pc EXCEPT ![t] = "set_at"]
              ELSE /\ o_pc' = [o_pc EXCEPT ![t] = OmpAfterBody(local_attempts)]
                   /\ UNCHANGED << o_found, o_finders >>
    /\ UNCHANGED << omp_threads, omp_cancellation, o_next, o_found_at,
                    o_found_password, o_attempts, o_progress, o_i, o_j, o_ret, o_out >>
    /\ UNCHANGED << inputVars, mainVars, callVars, launchVars, decodeVars, serialVars, mpiVars, cudaVars >>

\* found_at = i;
OmpSetFoundAt(t) ==
    /\ variant = "openmp"
    /\ o_pc[t] = "set_at"
    /\ o_found_at' = o_i[t]
    /\ o_j' = [o_j EXCEPT ![t] = 0]
    /\ o_pc' = [o_pc EXCEPT ![t] = "strcpy"]
    /\ UNCHANGED << omp_threads, omp_cancellation, o_next, o_found,
                    o_found_password, o_attempts, o_progress, o_i, o_guess,
                    o_local_attempts, o_evaluated, o_after, o_finders, o_ret, o_out >>
    /\ UNCHANGED << inputVars, mainVars, callVars, launchVars, decodeVars, serialVars, mpiVars, cudaVars >>

\* strcpy(found_password, guess), one byte per step (the buffer is shared and
\* the copy is not protected); then `#pragma omp cancel for`.
OmpStrcpy(t) ==
    /\ variant = "openmp"
    /\ o_pc[t] = "strcpy"
    /\ LET byte == o_guess[t][o_j[t] + 1]
       IN  /\ o_found_password' = [o_found_password EXCEPT ![o_j[t] + 1] = byte]
           /\ IF byte = NUL
              THEN /\ o_pc' = [o_pc EXCEPT
                         ![t] = OmpCancelFor(OmpAfterBody(o_local_attempts[t]))]
                   /\ UNCHANGED o_j
              ELSE /\ o_j' = [o_j EXCEPT ![t] = @ + 1]
                   /\ UNCHANGED o_pc
    /\ UNCHANGED << omp_threads, omp_cancellation, o_next, o_found, o_found_at,
                    o_attempts, o_progress, o_i, o_guess, o_local_attempts,
                    o_evaluated, o_after, o_finders, o_ret, o_out >>
    /\ UNCHANGED << inputVars, mainVars, callVars, launchVars, decodeVars, serialVars, mpiVars, cudaVars >>

\* Mutant: the local counter is not reset after it was added.
MutOmpResetLocal(local_attempts) == local_attempts

\* `local_attempts = 0;` after the flush (line 104).
OmpResetLocal(local_attempts) == 0

\* #pragma omp atomic  attempts += local_attempts;  local_attempts = 0;
OmpProgressFlush(t) ==
    /\ variant = "openmp"
    /\ o_pc[t] = "progress"
    /\ o_attempts' = (o_attempts + o_local_attempts[t]) % ULL
    /\ o_local_attempts' = [o_local_attempts EXCEPT ![t] = OmpResetLocal(@)]
    /\ o_pc' = [o_pc EXCEPT ![t] = "print"]
    /\ UNCHANGED << omp_threads, omp_cancellation, o_next, o_found, o_found_at,
                    o_found_password, o_progress, o_i, o_guess, o_j,
                    o_evaluated, o_after, o_finders, o_ret, o_out >>
    /\ UNCHANGED << inputVars, mainVars, callVars, launchVars, decodeVars, serialVars, mpiVars, cudaVars >>

\* #pragma omp critical { printf("Progress: %llu ...", attempts, ...); }
OmpProgressPrint(t) ==
    /\ variant = "openmp"
    /\ o_pc[t] = "print"
    /\ o_progress' = o_attempts
    /\ o_pc' = [o_pc EXCEPT ![t] = "next"]
    /\ UNCHANGED << omp_threads, omp_cancellation, o_next, o_found, o_found_at,
                    o_found_password, o_attempts, o_i, o_guess, o_local_attempts,
                    o_j, o_evaluated, o_after, o_finders, o_ret, o_out >>
    /\ UNCHANGED << inputVars, mainVars, callVars, launchVars, decodeVars, serialVars, mpiVars, cudaVars >>

\* The implicit barrier that ends `#pragma omp for`.
OmpBarrier(t) ==
    /\ variant = "openmp"
    /\ o_pc[t] = "barrier"
    /\ \A u \in Threads : o_pc[u] \in {"barrier", "flush", "end"}
    /\ o_pc' = [o_pc EXCEPT ![t] = "flush"]
    /\ UNCHANGED << omp_threads, omp_cancellation, o_next, o_found, o_found_at,
                    o_found_password, o_attempts, o_progress, o_i, o_guess,
                    o_local_attempts, o_j, o_evaluated, o_after, o_finders, o_ret, o_out >>
    /\ UNCHANGED << inputVars, mainVars, callVars, launchVars, decodeVars, serialVars, mpiVars, cudaVars >>

\* Mutant: the remaining local attempts are dropped.
MutOmpAddRemaining(attempts, local_attempts) == attempts

\* The shared counter after `attempts += local_attempts` (line 118).
OmpAddRemaining(attempts, local_attempts) == (attempts + local_attempts) % ULL

\* // Add remaining local attempts   #pragma omp atomic  attempts += local_attempts;
OmpFlushRemaining(t) ==
    /\ variant = "openmp"
    /\ o_pc[t] = "flush"
    /\ o_attempts' = OmpAddRemaining(o_attempts, o_local_attempts[t])
    /\ o_pc' = [o_pc EXCEPT ![t] = "end"]
    /\ UNCHANGED << omp_threads, omp_cancellation, o_next, o_found, o_found_at,
                    o_found_password, o_progress, o_i, o_guess, o_local_attempts,
                    o_j, o_evaluated, o_after, o_finders, o_ret, o_out >>
    /\ UNCHANGED << inputVars, mainVars, callVars, launchVars, decodeVars, serialVars, mpiVars, cudaVars >>

\* After the parallel region: if (found) {... return 1;} ... return 0;
OmpReport ==
    /\ variant = "openmp"
    /\ o_ret = NOT_RETURNED
    /\ \A t \in Threads : o_pc[t] = "end"
    /\ IF o_found # 0
       THEN /\ o_out' = [status |-> "found",
                         password |-> CString(o_found_password),
                         attempt |-> (o_found_at + 1) % ULL]
            /\ o_ret' = 1
       ELSE /\ o_out' = [status |-> "not found", attempts |-> o_attempts]
            /\ o_ret' = 0
    /\ UNCHANGED << omp_threads, omp_cancellation, o_next, o_found, o_found_at,
                    o_found_password, o_attempts, o_progress, o_pc, o_i, o_guess,
                    o_local_attempts, o_j, o_evaluated, o_after, o_finders >>
    /\ UNCHANGED << inputVars, mainVars, callVars, launchVars, decodeVars, serialVars, mpiVars, cudaVars >>

\* ------------------------------------------------------------------------
\* MPI program: mpi_crack, run by every rank
\* ------------------------------------------------------------------------
Ranks == 0..(world_size - 1)

\* Mutant: every rank starts at index 0.
MutMpiFirst(rank) == 0

\* `i = rank` of `for (i = rank; i < total; i += world_size)`.
MpiFirst(rank) == rank

InitMpiVars ==
    /\ world_size \in WorldSizes(password_length)
    /\ mpi_eager \in BOOLEAN
    /\ m_elapsed_printed = FALSE
    /\ m_last = [r \in Ranks |-> 0]
    /\ m_pc = [r \in Ranks |-> "loop"]
    /\ m_i = [r \in Ranks |-> MpiFirst(r)]
    /\ m_counter = [r \in Ranks |-> 0]
    /\ m_local_count = [r \in Ranks |-> 0]
    /\ m_guess = [r \in Ranks |-> Buffer(MAX_PASSWORD_LENGTH + 1)]
    /\ m_p = [r \in Ranks |-> 0]
    /\ m_total_progress = 0
    /\ m_progress = NOTHING_PRINTED
    /\ m_reported = [r \in Ranks |-> << >>]
    /\ m_ret = [r \in Ranks |-> NOT_RETURNED]
    /\ term_box = [r \in Ranks |-> {}]
    /\ prog_box = [r \in Ranks |-> << >>]
    /\ m_visited = [r \in Ranks |-> {}]
    /\ m_since = [r \in Ranks |-> 0]

\* Mutant: every rank advances by one more than the number of ranks.
MutMpiStride(i) == (i + world_size + 1) % ULL

\* `i += world_size` of `for (i = rank; i < total; i += world_size)`.
MpiStride(i) == (i + world_size) % ULL

\* Mutant: the poll is never due.
MutMpiPollDue(counter) == FALSE

\* `++counter % check_interval == 0` (counter already incremented).
MpiPollDue(counter) == counter % check_interval = 0

\* main after mpi_crack returns: `if (rank == 0) printf("Time elapsed ...")`,
\* which rank 0 reaches without waiting for any other rank.
MainAfterCrack(r, pc) == m_elapsed_printed \/ (r = 0 /\ pc[r] = "done")

\* Mutant: the loop also runs for i = total.
MutMpiInRange(i) == i <= total_combinations

\* `i < total` of `for (i = rank; i < total; i += world_size)`.
MpiInRange(i) == i < total_combinations

\* Loop test `i < total`, and `++counter` of the poll condition.
MpiLoop(r) ==
    /\ variant = "mpi"
    /\ m_pc[r] = "loop"
    /\ IF MpiInRange(m_i[r])
       THEN LET counter == (m_counter[r] + 1) % ULL
            IN  /\ m_counter' = [m_counter EXCEPT ![r] = counter]
                /\ m_pc' = [m_pc EXCEPT
                       ![r] = IF MpiPollDue(counter) THEN "probe" ELSE "guess"]
                /\ UNCHANGED m_ret
       ELSE /\ m_ret' = [m_ret EXCEPT ![r] = 0]
            /\ m_pc' = [m_pc EXCEPT ![r] = "done"]
            /\ UNCHANGED m_counter
    /\ m_elapsed_printed' = MainAfterCrack(r, m_pc')
    /\ UNCHANGED << world_size, mpi_eager, m_last, m_i, m_local_count, m_guess, m_p, m_total_progress,
                    m_progress, m_reported, term_box, prog_box, m_visited, m_since >>
    /\ UNCHANGED << inputVars, mainVars, callVars, launchVars, decodeVars, serialVars, ompVars, cudaVars >>

\* MPI_Iprobe(MPI_ANY_SOURCE, TERMINATE_TAG): on a message, MPI_Recv it and
\* return 0; else a non-zero rank MPI_Isend()s its counter to rank 0, and
\* rank 0 starts collecting with total_progress = counter.
MpiProbe(r) ==
    /\ variant = "mpi"
    /\ m_pc[r] = "probe"
    /\ IF term_box[r] # {}
       THEN /\ \E src \in term_box[r] :
                   term_box' = [term_box EXCEPT ![r] = @ \ {src}]
            /\ m_ret' = [m_ret EXCEPT ![r] = 0]
            /\ m_pc' = [m_pc EXCEPT ![r] = "done"]
            /\ UNCHANGED << m_local_count, prog_box, m_p, m_total_progress >>
       ELSE IF r # 0
            THEN /\ m_local_count' = [m_local_count EXCEPT ![r] = m_counter[r]]
                 /\ prog_box' = [prog_box EXCEPT ![r] = Append(@, m_counter[r])]
                 /\ m_pc' = [m_pc EXCEPT ![r] = "guess"]
                 /\ UNCHANGED << term_box, m_ret, m_p, m_total_progress >>
            ELSE /\ m_total_progress' = m_counter[r]
                 /\ m_p' = [m_p EXCEPT ![r] = 1]
                 /\ m_pc' = [m_pc EXCEPT ![r] = "collect"]
                 /\ UNCHANGED << term_box, m_ret, m_local_count, prog_box >>
    /\ m_elapsed_printed' = MainAfterCrack(r, m_pc')
    /\ UNCHANGED << world_size, mpi_eager, m_last, m_i, m_counter, m_guess, m_progress, m_reported,
                    m_visited, m_since >>
    /\ UNCHANGED << inputVars, mainVars, callVars, launchVars, decodeVars, serialVars, ompVars, cudaVars >>

\* MPI_Isend(&local_count, ..., &progress_req) is never followed by MPI_Wait
\* or MPI_Test.  A library that buffers the message (mpi_eager) has copied
\* local_count when MPI_Isend returns; otherwise the send stays pending, and
\* its data are read from &local_count, when rank 0 receives the message.
PendingSends(r) == IF mpi_eager THEN {} ELSE DOMAIN prog_box[r]

\* What the bytes at &local_count can hold once mpi_crack has returned and
\* its frame is reused: the value left there, or anything else (here a
\* value with a high bit set, as an address or a return address has).
STALE_STACK == ULL \div 2

\* The values MPI_Recv can deliver to rank 0 for the oldest message of rank
\* p: the copy made at MPI_Isend, or what &local_count holds at the transfer.
BufferReads(p) ==
    IF mpi_eager THEN {Head(prog_box[p])}
    ELSE IF m_pc[p] = "done" THEN {m_local_count[p], STALE_STACK}
    ELSE {m_local_count[p]}

\* Rank 0: one pass of `for (p = 1; p < world_size; p++)` (MPI_Iprobe of
\* PROGRESS_TAG from p, MPI_Recv, total_progress += worker_count), and the
\* printf after the loop.
MpiCollect(r) ==
    /\ variant = "mpi"
    /\ r = 0
    /\ m_pc[r] = "collect"
    /\ IF m_p[r] < world_size
       THEN /\ IF prog_box[m_p[r]] # << >>
               THEN /\ \E worker_count \in BufferReads(m_p[r]) :
                          /\ m_total_progress' =
                                 (m_total_progress + worker_count) % ULL
                          /\ m_last' = [m_last EXCEPT ![m_p[r]] = worker_count]
                    /\ prog_box' = [prog_box EXCEPT ![m_p[r]] = Tail(@)]
               ELSE UNCHANGED << m_total_progress, m_last, prog_box >>
            /\ m_p' = [m_p EXCEPT ![r] = @ + 1]
            /\ UNCHANGED << m_progress, m_pc >>
       ELSE /\ m_progress' = m_total_progress
            /\ m_pc' = [m_pc EXCEPT ![r] = "guess"]
            /\ UNCHANGED << m_total_progress, m_last, prog_box, m_p >>
    /\ UNCHANGED << world_size, mpi_eager, m_elapsed_printed, m_i, m_counter, m_local_count, m_guess, m_reported,
                    m_ret, term_box, m_visited, m_since >>
    /\ UNCHANGED << inputVars, mainVars, callVars, launchVars, decodeVars, serialVars, ompVars, cudaVars >>

\* number_to_password; generate_hash; memcmp: on a match print the password
\* and start sending the termination message, else go to the next index.
MpiGuess(r) ==
    /\ variant = "mpi"
    /\ m_pc[r] = "guess"
    /\ LET guess == number_to_password(m_i[r], m_guess[r], password_length)
       IN  /\ m_guess' = [m_guess EXCEPT ![r] = guess]
           /\ m_visited' = [m_visited EXCEPT ![r] = @ \cup {m_i[r]}]
           /\ m_since' = [m_since EXCEPT
                  ![r] = IF term_box[r] # {} THEN @ + 1 ELSE @]
           /\ IF generate_hash(guess) = target_hash
              THEN /\ m_reported' = [m_reported EXCEPT ![r] = CString(guess)]
                   /\ m_p' = [m_p EXCEPT ![r] = 0]
                   /\ m_pc' = [m_pc EXCEPT ![r] = "send"]
                   /\ UNCHANGED m_i
              ELSE /\ m_i' = [m_i EXCEPT ![r] = MpiStride(@)]
                   /\ m_pc' = [m_pc EXCEPT ![r] = "loop"]
                   /\ UNCHANGED << m_reported, m_p >>
    /\ UNCHANGED << world_size, mpi_eager, m_last, m_elapsed_printed, m_counter, m_local_count, m_total_progress,
                    m_progress, m_ret, term_box, prog_box >>
    /\ UNCHANGED << inputVars, mainVars, callVars, launchVars, decodeVars, serialVars, ompVars, cudaVars >>

\* One pass of `for (p = 0; p < world_size; p++) if (p != rank) MPI_Send(...,
\* p, TERMINATE_TAG, ...)`, and `return 1` after the loop.  MPI_Send is a
\* standard-mode send: the message becomes visible to the peer's probe, and
\* the call returns at once when the library buffers the message, else when
\* the peer has received it.
MpiSendTerminate(r) ==
    /\ variant = "mpi"
    /\ m_pc[r] = "send"
    /\ IF m_p[r] < world_size
       THEN /\ IF m_p[r] # r
               THEN /\ term_box' = [term_box EXCEPT ![m_p[r]] = @ \cup {r}]
                    /\ IF mpi_eager
                       THEN /\ m_p' = [m_p EXCEPT ![r] = @ + 1]
                            /\ UNCHANGED m_pc
                       ELSE /\ m_pc' = [m_pc EXCEPT ![r] = "wait"]
                            /\ UNCHANGED m_p
               ELSE /\ m_p' = [m_p EXCEPT ![r] = @ + 1]
                    /\ UNCHANGED << term_box, m_pc >>
            /\ UNCHANGED m_ret
       ELSE /\ m_ret' = [m_ret EXCEPT ![r] = 1]
            /\ m_pc' = [m_pc EXCEPT ![r] = "done"]
            /\ UNCHANGED << term_box, m_p >>
    /\ m_elapsed_printed' = MainAfterCrack(r, m_pc')
    /\ UNCHANGED << world_size, mpi_eager, m_last, m_i, m_counter, m_local_count, m_guess,
                    m_total_progress, m_progress, m_reported, prog_box,
                    m_visited, m_since >>
    /\ UNCHANGED << inputVars, mainVars, callVars, launchVars, decodeVars, serialVars, ompVars, cudaVars >>

\* MPI_Send that does not buffer: it returns when the peer's MPI_Recv has
\* taken the message.
MpiSendWait(r) ==
    /\ variant = "mpi"
    /\ m_pc[r] = "wait"
    /\ r \notin term_box[m_p[r]]
    /\ m_p' = [m_p EXCEPT ![r] = @ + 1]
    /\ m_pc' = [m_pc EXCEPT ![r] = "send"]
    /\ UNCHANGED << world_size, mpi_eager, m_last, m_elapsed_printed, m_i, m_counter, m_local_count, m_guess,
                    m_total_progress, m_progress, m_reported, m_ret, term_box,
                    prog_box, m_visited, m_since >>
    /\ UNCHANGED << inputVars, mainVars, callVars, launchVars, decodeVars, serialVars, ompVars, cudaVars >>

\* ------------------------------------------------------------------------
\* CUDA program: crack_password_cuda (host) and crack_password_kernel (lanes)
\* ------------------------------------------------------------------------
\* int blocks: the user's num_blocks when positive, else computed from the work.
CudaBlocks(total, tpb, nblocks) ==
    IF nblocks > 0
    THEN nblocks
    ELSE LET threads_needed == (total + passwords_per_thread - 1) \div passwords_per_thread
         IN  (threads_needed + tpb - 1) \div tpb

\* A lane is a (blockIdx.x, threadIdx.x) pair of the launch
\* <<<blocks, threads_per_block>>>; a launch that fails starts no lane.
Lanes ==
    IF h_err = "cudaSuccess"
    THEN (0..(blocks - 1)) \X (0..(threads_per_block - 1))
    ELSE {}

\* unsigned long long thread_id = blockIdx.x * blockDim.x + threadIdx.x;
\* (the right-hand side is computed in unsigned int).
thread_id(lane) == (lane[1] * threads_per_block + lane[2]) % UINT

\* __device__ md5_cuda over prepare_md5_input(password, length): the
\* fingerprint of the first `length` bytes of the lane's buffer.
md5_cuda(password, length) ==
    IF SubSeq(password, 1, length) \in DOMAIN md5
    THEN md5[SubSeq(password, 1, length)]
    ELSE OTHER_DIGEST

InitCudaVars ==
    /\ threads_per_block \in 1..MaxTPB
    /\ num_blocks \in 0..MaxBlocks
    /\ blocks = CudaBlocks(total_combinations, threads_per_block, num_blocks)
    /\ h_err \in {"cudaSuccess", "cudaErrorLaunchFailure"}
    /\ d_found_flag = 0
    /\ d_result_password = Buffer(MAX_PASSWORD_LENGTH + 1)
    /\ d_found_at_index = 0
    /\ k_pc = [l \in Lanes |-> "start"]
    /\ k_my_start = [l \in Lanes |-> 0]
    /\ k_i = [l \in Lanes |-> 0]
    /\ k_password = [l \in Lanes |-> Buffer(MAX_PASSWORD_LENGTH + 1)]
    /\ k_current_index = [l \in Lanes |-> 0]
    /\ k_visited = [l \in Lanes |-> {}]
    /\ k_winners = {}
    /\ k_late = [l \in Lanes |-> 0]
    /\ h_pc = "launch"
    /\ h_found = 0
    /\ h_result_password = Buffer(MAX_PASSWORD_LENGTH + 1)
    /\ h_found_at_index = 0
    /\ h_ret = NOT_RETURNED

\* my_start = start_index + thread_id * passwords_per_thread;
\* if (my_start >= total_combinations) return;
KernelStart(l) ==
    /\ variant = "cuda"
    /\ k_pc[l] = "start"
    /\ LET my_start == (0 + thread_id(l) * passwords_per_thread) % ULL
       IN  /\ k_my_start' = [k_my_start EXCEPT ![l] = my_start]
           /\ k_pc' = [k_pc EXCEPT
                  ![l] = IF my_start >= total_combinations THEN "done" ELSE "check"]
    /\ UNCHANGED << threads_per_block, num_blocks, blocks, h_err, d_found_flag,
                    d_result_password, d_found_at_index, k_i, k_password,
                    k_current_index, k_visited, k_winners, k_late, h_pc, h_found,
                    h_result_password, h_found_at_index, h_ret >>
    /\ UNCHANGED << inputVars, mainVars, callVars, launchVars, decodeVars, serialVars, ompVars, mpiVars >>

\* What the plain load `*found_flag` can give a lane.  The load races with the
\* atomicCAS of other lanes and nothing in the loop orders it (the pointer is
\* not volatile, the loop body stores only to lane-local arrays), so the
\* compiled kernel may keep an earlier value: the lane sees either the
\* current value or the initial 0.
KernelFlagReads == {d_found_flag, 0}

\* Mutant: the lane stops only beyond the index total_combinations.
MutKernelInRange(current_index) == current_index <= total_combinations

\* The negation of `current_index >= total_combinations`.
KernelInRange(current_index) == current_index < total_combinations

\* Loop test, `if (*found_flag) return;`, current_index = my_start + i,
\* `if (current_index >= total_combinations) return;`.
KernelCheck(l) ==
    /\ variant = "cuda"
    /\ k_pc[l] = "check"
    /\ \E seen \in KernelFlagReads :
          LET current_index == (k_my_start[l] + k_i[l]) % ULL
              go == /\ k_i[l] < passwords_per_thread
                    /\ seen = 0
                    /\ KernelInRange(current_index)
          IN  /\ k_pc' = [k_pc EXCEPT ![l] = IF go THEN "eval" ELSE "done"]
              /\ k_current_index' =
                     [k_current_index EXCEPT
                         ![l] = IF k_i[l] < passwords_per_thread /\ seen = 0
                                THEN current_index ELSE @]
              /\ k_late' = [k_late EXCEPT
                     ![l] = IF go /\ d_found_flag # 0 THEN @ + 1 ELSE @]
    /\ UNCHANGED << threads_per_block, num_blocks, blocks, h_err, d_found_flag,
                    d_result_password, d_found_at_index, k_my_start, k_i,
                    k_password, k_visited, k_winners, h_pc, h_found,
                    h_result_password, h_found_at_index, h_ret >>
    /\ UNCHANGED << inputVars, mainVars, callVars, launchVars, decodeVars, serialVars, ompVars, mpiVars >>

\* Mutant: every matching lane takes the winner's branch.
MutKernelWins(old) == TRUE

\* `if (old == 0)` after `int old = atomicCAS(found_flag, 0, 1);`
KernelWins(old) == old = 0

\* index_to_password; prepare_md5_input; md5_cuda; the comparison with
\* target_hash; on a match atomicCAS(found_flag, 0, 1).
KernelEvaluate(l) ==
    /\ variant = "cuda"
    /\ k_pc[l] = "eval"
    /\ LET password == index_to_password(k_current_index[l], k_password[l],
                                         password_length)
       IN  /\ k_password' = [k_password EXCEPT ![l] = password]
           /\ k_visited' = [k_visited EXCEPT ![l] = @ \cup {k_current_index[l]}]
           /\ IF md5_cuda(password, password_length) = target_hash
              THEN /\ d_found_flag' = IF d_found_flag = 0 THEN 1 ELSE d_found_flag
                   /\ k_pc' = [k_pc EXCEPT
                          ![l] = IF KernelWins(d_found_flag) THEN "write_index" ELSE "done"]
                   /\ k_winners' = IF d_found_flag = 0 THEN k_winners \cup {l} ELSE k_winners
                   /\ UNCHANGED k_i
              ELSE /\ k_i' = [k_i EXCEPT ![l] = (@ + 1) % ULL]
                   /\ k_pc' = [k_pc EXCEPT ![l] = "check"]
                   /\ UNCHANGED << d_found_flag, k_winners >>
    /\ UNCHANGED << threads_per_block, num_blocks, blocks, h_err, d_result_password,
                    d_found_at_index, k_my_start, k_current_index, k_late, h_pc,
                    h_found, h_result_password, h_found_at_index, h_ret >>
    /\ UNCHANGED << inputVars, mainVars, callVars, launchVars, decodeVars, serialVars, ompVars, mpiVars >>

\* *found_at_index = current_index;
KernelWriteIndex(l) ==
    /\ variant = "cuda"
    /\ k_pc[l] = "write_index"
    /\ d_found_at_index' = k_current_index[l]
    /\ k_pc' = [k_pc EXCEPT ![l] = "write_password"]
    /\ UNCHANGED << threads_per_block, num_blocks, blocks, h_err, d_found_flag,
                    d_result_password, k_my_start, k_i, k_password,
                    k_current_index, k_visited, k_winners, k_late, h_pc, h_found,
                    h_result_password, h_found_at_index, h_ret >>
    /\ UNCHANGED << inputVars, mainVars, callVars, launchVars, decodeVars, serialVars, ompVars, mpiVars >>

\* for (j = 0; j <= password_length; j++) result_password[j] = password[j]; return;
KernelWritePassword(l) ==
    /\ variant = "cuda"
    /\ k_pc[l] = "write_password"
    /\ d_result_password' =
           [j \in 1..Len(d_result_password) |->
               IF j <= password_length + 1 THEN k_password[l][j]
                                           ELSE d_result_password[j]]
    /\ k_pc' = [k_pc EXCEPT ![l] = "done"]
    /\ UNCHANGED << threads_per_block, num_blocks, blocks, h_err, d_found_flag,
                    d_found_at_index, k_my_start, k_i, k_password,
                    k_current_index, k_visited, k_winners, k_late, h_pc, h_found,
                    h_result_password, h_found_at_index, h_ret >>
    /\ UNCHANGED << inputVars, mainVars, callVars, launchVars, decodeVars, serialVars, ompVars, mpiVars >>

\* cudaError_t err = cudaGetLastError();
\* if (err != cudaSuccess) { printf("Kernel launch error: ..."); return 0; }
HostLaunch ==
    /\ variant = "cuda"
    /\ h_pc = "launch"
    /\ IF h_err # "cudaSuccess"
       THEN h_ret' = 0 /\ h_pc' = "done"
       ELSE h_pc' = "kernel" /\ UNCHANGED h_ret
    /\ UNCHANGED << threads_per_block, num_blocks, blocks, h_err, d_found_flag,
                    d_result_password, d_found_at_index, k_pc, k_my_start, k_i,
                    k_password, k_current_index, k_visited, k_winners, k_late,
                    h_found, h_result_password, h_found_at_index >>
    /\ UNCHANGED << inputVars, mainVars, callVars, launchVars, decodeVars, serialVars, ompVars, mpiVars >>

\* cudaDeviceSynchronize(); the three cudaMemcpy to the host; return found.
HostCollect ==
    /\ variant = "cuda"
    /\ h_pc = "kernel"
    /\ \A l \in Lanes : k_pc[l] = "done"
    /\ h_found' = d_found_flag
    /\ h_result_password' = d_result_password
    /\ h_found_at_index' = d_found_at_index
    /\ h_ret' = d_found_flag
    /\ h_pc' = "done"
    /\ UNCHANGED << threads_per_block, num_blocks, blocks, h_err, d_found_flag,
                    d_result_password, d_found_at_index, k_pc, k_my_start, k_i,
                    k_password, k_current_index, k_visited, k_winners, k_late >>
    /\ UNCHANGED << inputVars, mainVars, callVars, launchVars, decodeVars, serialVars, ompVars, mpiVars >>

\* ------------------------------------------------------------------------
\* Specifications
\* ------------------------------------------------------------------------
IdleOmp ==
    /\ omp_threads = 0 /\ omp_cancellation = FALSE /\ o_next = 0 /\ o_found = 0
    /\ o_found_at = 0 /\ o_found_password = << >> /\ o_attempts = 0
    /\ o_progress = NOTHING_PRINTED /\ o_pc = << >> /\ o_i = << >> /\ o_guess = << >>
    /\ o_local_attempts = << >> /\ o_j = << >> /\ o_evaluated = << >>
    /\ o_after = 0 /\ o_finders = {}
    /\ o_ret = NOT_RETURNED /\ o_out = NO_REPORT

IdleMpi ==
    /\ world_size = 0 /\ mpi_eager = FALSE /\ m_elapsed_printed = FALSE /\ m_last = << >>
    /\ m_pc = << >> /\ m_i = << >> /\ m_counter = << >>
    /\ m_local_count = << >> /\ m_guess = << >> /\ m_p = << >>
    /\ m_total_progress = 0 /\ m_progress = NOTHING_PRINTED /\ m_reported = << >>
    /\ m_ret = << >> /\ term_box = << >> /\ prog_box = << >>
    /\ m_visited = << >> /\ m_since = << >>

IdleCuda ==
    /\ threads_per_block = 0 /\ num_blocks = 0 /\ blocks = 0 /\ h_err = "cudaSuccess"
    /\ d_found_flag = 0
    /\ d_result_password = << >> /\ d_found_at_index = 0 /\ k_pc = << >>
    /\ k_my_start = << >> /\ k_i = << >> /\ k_password = << >>
    /\ k_current_index = << >> /\ k_visited = << >> /\ k_winners = {}
    /\ k_late = << >>
    /\ h_pc = "off" /\ h_found = 0 /\ h_result_password = << >>
    /\ h_found_at_index = 0 /\ h_ret = NOT_RETURNED

\* ------------------------------------------------------------------------
\* The main functions: reading and validating the password
\* ------------------------------------------------------------------------
\* Typed tokens: every string of 1..MaxInputLen symbols, lowercase or not,
\* as typed and also followed by 'a's up to MAX_PASSWORD_LENGTH and up to
\* MAX_PASSWORD_LENGTH + 1 characters.
MaxInputLen == 2
InputSymbols == {"a", "z", "A", "1"}
Pad(s, n) == s \o [j \in 1..(n - Len(s)) |-> "a"]
Inputs ==
    { Pad(s, n) : s \in UNION { [1..k -> InputSymbols] : k \in 1..MaxInputLen },
                  n \in {0, MAX_PASSWORD_LENGTH, MAX_PASSWORD_LENGTH + 1} }

\* !(password[i] < 'a' || password[i] > 'z')
Lowercase(c) == \E k \in 1..CHARSET_SIZE : CHARSET[k] = c

\* The early returns of each main between scanf and the call of the search:
\* the status returned, NOT_RETURNED when main goes on to the search.
\* serial: if (length > MAX_PASSWORD_LENGTH) return 1;
\*         for (i ...) if (password[i] < 'a' || password[i] > 'z') return 1;
ValidateSerial(password) ==
    IF Len(password) > MAX_PASSWORD_LENGTH THEN 1
    ELSE IF \E i \in 1..Len(password) : ~Lowercase(password[i]) THEN 1
    ELSE NOT_RETURNED

\* OpenMP: the same two tests.
ValidateOmp(password) ==
    IF Len(password) > MAX_PASSWORD_LENGTH THEN 1
    ELSE IF \E i \in 1..Len(password) : ~Lowercase(password[i]) THEN 1
    ELSE NOT_RETURNED

\* CUDA: the same two tests and, between them, if (length == 0) return 1.
ValidateCuda(password) ==
    IF Len(password) > MAX_PASSWORD_LENGTH THEN 1
    ELSE IF Len(password) = 0 THEN 1
    ELSE IF \E i \in 1..Len(password) : ~Lowercase(password[i]) THEN 1
    ELSE NOT_RETURNED

\* MPI: between scanf/MPI_Bcast and mpi_crack there is only
\* int length = strlen(password); generate_hash(password, target_hash).
ValidateMpi(password) == NOT_RETURNED

Validate(program, password) ==
    CASE program = "serial" -> ValidateSerial(password)
      [] program = "openmp" -> ValidateOmp(password)
      [] program = "cuda" -> ValidateCuda(password)
      [] program = "mpi" -> ValidateMpi(password)

InitMain ==
    /\ variant = "main"
    /\ charset_size = CHARSET_SIZE
    /\ password_length = 0
    /\ md5 = << >>
    /\ target_hash = TARGET_DIGEST
    /\ main_program \in {"serial", "openmp", "mpi", "cuda"}
    /\ main_input \in Inputs
    /\ main_pc = "scanf"
    /\ main_password = << >>
    /\ main_called = FALSE
    /\ main_exit = NOT_RETURNED

\* char password[MAX_PASSWORD_LENGTH + 1]; scanf("%s", password);
\* A token of more than MAX_PASSWORD_LENGTH characters is written past the
\* end of the array: the process is killed, or goes on with the whole token
\* as its string.
MainScanf ==
    /\ variant = "main"
    /\ main_pc = "scanf"
    /\ \/ /\ main_pc' = "validate"
          /\ main_password' = main_input
       \/ /\ Len(main_input) > MAX_PASSWORD_LENGTH
          /\ main_pc' = "killed"
          /\ UNCHANGED main_password
    /\ UNCHANGED << main_program, main_input, main_called, main_exit >>
    /\ UNCHANGED << inputVars, decodeVars, serialVars, ompVars, mpiVars, cudaVars, callVars,
                    launchVars >>

\* int length = strlen(password); the tests of the program; return 1.
MainValidate ==
    /\ variant = "main"
    /\ main_pc = "validate"
    /\ LET status == Validate(main_program, main_password)
       IN  IF status # NOT_RETURNED
           THEN main_exit' = status /\ main_pc' = "exit"
           ELSE main_pc' = "crack" /\ UNCHANGED main_exit
    /\ UNCHANGED << main_program, main_input, main_password, main_called >>
    /\ UNCHANGED << inputVars, decodeVars, serialVars, ompVars, mpiVars, cudaVars, callVars,
                    launchVars >>

\* crack_password_serial(password, length) / crack_password_openmp /
\* crack_password_cuda / mpi_crack, then return 0.
MainCrack ==
    /\ variant = "main"
    /\ main_pc = "crack"
    /\ main_called' = TRUE
    /\ main_exit' = 0
    /\ main_pc' = "exit"
    /\ UNCHANGED << main_program, main_input, main_password >>
    /\ UNCHANGED << inputVars, decodeVars, serialVars, ompVars, mpiVars, cudaVars, callVars,
                    launchVars >>

\* ------------------------------------------------------------------------
\* The keyspace functions called on their own, with the full CHARSET
\* ------------------------------------------------------------------------
\* Every length main accepts, 1..MAX_PASSWORD_LENGTH (from 26^7 on the size
\* no longer fits the scaled unsigned long long), and the indices
\* 0..MaxCallIndex (beyond 26^2 = 676).
MaxCallIndex == 729

\* The functions that call number_to_password, and the size of the array
\* each passes: char guess[MAX_PASSWORD_LENGTH] in crack_password_serial,
\* char guess[MAX_PASSWORD_LENGTH + 1] in crack_password_parallel and mpi_crack.
Callers == {"serial", "openmp", "mpi"}
GuessSize(caller) ==
    IF caller = "serial" THEN MAX_PASSWORD_LENGTH ELSE MAX_PASSWORD_LENGTH + 1

\* The offsets number_to_password / index_to_password write:
\* password[i] for i = length - 1 down to 0, then password[length].
WrittenOffsets(length) == { i \in 0..(length - 1) : i >= 0 } \cup {length}

\* Some offset written lies outside an array of that many bytes.
Overruns(size, length) == \E off \in WrittenOffsets(length) : off >= size
\* The index of a candidate: its symbols read as digits, most significant
\* first.  The functions are also called on the index of "test".
RECURSIVE CandidateIndex(_)
CandidateIndex(str) ==
    IF str = << >> THEN 0
    ELSE CandidateIndex(SubSeq(str, 1, Len(str) - 1)) * CHARSET_SIZE
         + (CHOOSE k \in 1..CHARSET_SIZE : CHARSET[k] = str[Len(str)]) - 1
ExampleCandidate == << "t", "e", "s", "t" >>
CallIndices == 0..MaxCallIndex \cup {CandidateIndex(ExampleCandidate)}

InitCall ==
    /\ variant = "call"
    /\ charset_size \in CharsetSizes("call")
    /\ password_length \in 1..MAX_PASSWORD_LENGTH
    /\ md5 = << >>
    /\ target_hash = TARGET_DIGEST
    /\ f_pc = "combinations"
    /\ f_caller \in Callers
    /\ f_index \in CallIndices
    /\ f_total = NOT_RETURNED
    /\ f_password = Buffer(GuessSize(f_caller))
    /\ f_dev_password = Buffer(MAX_PASSWORD_LENGTH + 1)
    /\ f_overrun = {}

\* unsigned long long total_combinations = calculate_combinations(length);
CallCombinations ==
    /\ variant = "call"
    /\ f_pc = "combinations"
    /\ f_total' = calculate_combinations(password_length)
    /\ f_pc' = "number"
    /\ UNCHANGED << f_caller, f_index, f_password, f_dev_password, f_overrun >>
    /\ UNCHANGED << inputVars, decodeVars, serialVars, ompVars, mpiVars, cudaVars, mainVars,
                    launchVars >>

\* number_to_password(num, password, length);
CallNumberToPassword ==
    /\ variant = "call"
    /\ f_pc = "number"
    /\ f_password' = number_to_password(f_index, f_password, password_length)
    /\ f_overrun' = IF Overruns(Len(f_password), password_length)
                    THEN f_overrun \cup {f_caller} ELSE f_overrun
    /\ f_pc' = "index"
    /\ UNCHANGED << f_caller, f_index, f_total, f_dev_password >>
    /\ UNCHANGED << inputVars, decodeVars, serialVars, ompVars, mpiVars, cudaVars, mainVars,
                    launchVars >>

\* index_to_password(current_index, password, password_length);
CallIndexToPassword ==
    /\ variant = "call"
    /\ f_pc = "index"
    /\ f_dev_password' = index_to_password(f_index, f_dev_password, password_length)
    /\ f_overrun' = IF Overruns(Len(f_dev_password), password_length)
                    THEN f_overrun \cup {"cuda"} ELSE f_overrun
    /\ f_pc' = "done"
    /\ UNCHANGED << f_caller, f_index, f_total, f_password >>
    /\ UNCHANGED << inputVars, decodeVars, serialVars, ompVars, mpiVars, cudaVars, mainVars,
                    launchVars >>

\* ------------------------------------------------------------------------
\* The launch arithmetic of crack_password_cuda, at the widths of the build
\* ------------------------------------------------------------------------
\* An unsigned long long is four limbs of 16 bits, least significant first;
\* an unsigned int is two.  Arithmetic on n limbs is arithmetic modulo
\* 2^(16 n): the carry out of the last limb is dropped.
LIMB == 2^16

\* The unsigned long long of a non-negative int.
Wide(n) == << n % LIMB, n \div LIMB, 0, 0 >>

\* a * m + carry, for a small m.
RECURSIVE MulLimbs(_, _, _)
MulLimbs(a, m, carry) ==
    IF a = << >> THEN << >>
    ELSE LET v == Head(a) * m + carry
         IN  << v % LIMB >> \o MulLimbs(Tail(a), m, v \div LIMB)

\* a + carry, for a small carry.
RECURSIVE AddLimbs(_, _)
AddLimbs(a, carry) ==
    IF a = << >> THEN << >>
    ELSE LET v == Head(a) + carry
         IN  << v % LIMB >> \o AddLimbs(Tail(a), v \div LIMB)

\* The limbs 1..i of a / d for a small d, given the remainder of the limbs above i.
RECURSIVE DivLimbs(_, _, _, _)
DivLimbs(a, d, i, rem) ==
    IF i = 0 THEN << >>
    ELSE LET v == rem * LIMB + a[i]
         IN  DivLimbs(a, d, i - 1, v % d) \o << v \div d >>

\* Conversion of an unsigned long long to int: the low 32 bits, as a
\* two's-complement value.
ToInt(a) ==
    IF a[2] >= LIMB \div 2 THEN (a[2] - LIMB) * LIMB + a[1] ELSE a[2] * LIMB + a[1]

\* Conversion of an unsigned int to unsigned long long.
Widen(a) == << a[1], a[2], 0, 0 >>

\* unsigned long long passwords_per_thread = 100;
LaunchPasswordsPerThread == 100

\* unsigned long long total_combinations = 1;
\* for (int i = 0; i < password_length; i++) total_combinations *= CHARSET_SIZE;
RECURSIVE LaunchTotal(_, _, _)
LaunchTotal(total, i, length) ==
    IF i < length
    THEN LaunchTotal(MulLimbs(total, CHARSET_SIZE, 0), i + 1, length)
    ELSE total

\* threads_needed = (total_combinations + passwords_per_thread - 1) / passwords_per_thread;
LaunchThreadsNeeded(length) ==
    DivLimbs(AddLimbs(LaunchTotal(Wide(1), 0, length), LaunchPasswordsPerThread - 1),
             LaunchPasswordsPerThread, 4, 0)

\* (threads_needed + threads_per_block - 1) / threads_per_block
LaunchQuotient(length, tpb) ==
    DivLimbs(AddLimbs(LaunchThreadsNeeded(length), tpb - 1), tpb, 4, 0)

\* blockIdx.x * blockDim.x + threadIdx.x, computed in unsigned int.
LaunchThreadId(blockIdx, blockDim, threadIdx) ==
    AddLimbs(MulLimbs(SubSeq(Wide(blockIdx), 1, 2), blockDim, 0), threadIdx)

\* Threads per block: 1..MaxLaunchTPB, the limit of a block on the device.
MaxLaunchTPB == 1024

InitLaunch ==
    /\ variant = "launch"
    /\ charset_size = CHARSET_SIZE
    /\ password_length \in 1..MAX_PASSWORD_LENGTH
    /\ md5 = << >>
    /\ target_hash = TARGET_DIGEST
    /\ g_pc = "blocks"
    /\ g_tpb \in 1..MaxLaunchTPB
    /\ g_quotient = << >>
    /\ g_blocks = 0
    /\ g_thread_id = << >>

\* num_blocks = 0: blocks = (threads_needed + threads_per_block - 1) / threads_per_block;
LaunchBlocks ==
    /\ variant = "launch"
    /\ g_pc = "blocks"
    /\ g_quotient' = LaunchQuotient(password_length, g_tpb)
    /\ g_blocks' = ToInt(LaunchQuotient(password_length, g_tpb))
    /\ g_pc' = "lane"
    /\ UNCHANGED << g_tpb, g_thread_id >>
    /\ UNCHANGED << inputVars, decodeVars, serialVars, ompVars, mpiVars, cudaVars, mainVars,
                    callVars >>

\* The last lane of <<<blocks, threads_per_block>>> (a grid of no block or
\* a negative number of blocks has none):
\* unsigned long long thread_id = blockIdx.x * blockDim.x + threadIdx.x;
LaunchLastLane ==
    /\ variant = "launch"
    /\ g_pc = "lane"
    /\ g_thread_id' =
           IF g_blocks >= 1
           THEN Widen(LaunchThreadId(g_blocks - 1, g_tpb, g_tpb - 1))
           ELSE g_thread_id
    /\ g_pc' = "done"
    /\ UNCHANGED << g_tpb, g_quotient, g_blocks >>
    /\ UNCHANGED << inputVars, decodeVars, serialVars, ompVars, mpiVars, cudaVars, mainVars,
                    callVars >>

IdleMain ==
    /\ main_program = "none" /\ main_input = << >> /\ main_pc = "off"
    /\ main_password = << >> /\ main_called = FALSE /\ main_exit = NOT_RETURNED
IdleCall ==
    /\ f_pc = "off" /\ f_caller = "none" /\ f_index = 0 /\ f_total = NOT_RETURNED
    /\ f_password = << >> /\ f_dev_password = << >> /\ f_overrun = {}

IdleLaunch ==
    /\ g_pc = "off" /\ g_tpb = 0 /\ g_quotient = << >> /\ g_blocks = 0
    /\ g_thread_id = << >>

IdleOthers == IdleMain /\ IdleCall /\ IdleLaunch
InitDecodeRun == InitDecode /\ IdleSerial /\ IdleOmp /\ IdleMpi /\ IdleCuda /\ IdleOthers
InitSerial == InitInputs("serial") /\ IdleDecode /\ InitSerialVars /\ IdleOmp /\ IdleMpi /\ IdleCuda /\ IdleOthers
InitOmp == InitInputs("openmp") /\ IdleDecode /\ IdleSerial /\ InitOmpVars /\ IdleMpi /\ IdleCuda /\ IdleOthers
InitMpi == InitInputs("mpi") /\ IdleDecode /\ IdleSerial /\ IdleOmp /\ InitMpiVars /\ IdleCuda /\ IdleOthers
InitCuda == InitInputs("cuda") /\ IdleDecode /\ IdleSerial /\ IdleOmp /\ IdleMpi /\ InitCudaVars /\ IdleOthers

NextDecode == DecodeNext
NextSerial == SerialIterate \/ SerialExhausted
NextOmp ==
    \/ \E t \in Threads :
          \/ OmpNextIteration(t) \/ OmpCheckFound(t) \/ OmpEvaluate(t)
          \/ OmpSetFoundAt(t) \/ OmpStrcpy(t) \/ OmpProgressFlush(t)
          \/ OmpProgressPrint(t) \/ OmpBarrier(t) \/ OmpFlushRemaining(t)
    \/ OmpReport
NextMpi ==
    \E r \in Ranks :
        \/ MpiLoop(r) \/ MpiProbe(r) \/ MpiCollect(r) \/ MpiGuess(r)
        \/ MpiSendTerminate(r) \/ MpiSendWait(r)
NextCuda ==
    \/ \E l \in Lanes :
          \/ KernelStart(l) \/ KernelCheck(l) \/ KernelEvaluate(l)
          \/ KernelWriteIndex(l) \/ KernelWritePassword(l)
    \/ HostLaunch
    \/ HostCollect

InitMainRun ==
    InitMain /\ IdleDecode /\ IdleSerial /\ IdleOmp /\ IdleMpi /\ IdleCuda /\ IdleCall
    /\ IdleLaunch
NextMain == MainScanf \/ MainValidate \/ MainCrack
SpecMain == InitMainRun /\ [][NextMain]_vars

InitCallRun ==
    InitCall /\ IdleDecode /\ IdleSerial /\ IdleOmp /\ IdleMpi /\ IdleCuda /\ IdleMain
    /\ IdleLaunch
NextCall == CallCombinations \/ CallNumberToPassword \/ CallIndexToPassword
SpecCall == InitCallRun /\ [][NextCall]_vars

InitLaunchRun ==
    /\ InitLaunch /\ IdleDecode /\ IdleSerial /\ IdleOmp /\ IdleMpi /\ IdleCuda
    /\ IdleMain /\ IdleCall
NextLaunch == LaunchBlocks \/ LaunchLastLane
SpecLaunch == InitLaunchRun /\ [][NextLaunch]_vars

Init ==
    \/ InitDecodeRun \/ InitSerial \/ InitOmp \/ InitMpi \/ InitCuda
    \/ InitMainRun \/ InitCallRun \/ InitLaunchRun
Next ==
    \/ NextDecode \/ NextSerial \/ NextOmp \/ NextMpi \/ NextCuda
    \/ NextMain \/ NextCall \/ NextLaunch

Spec == Init /\ [][Next]_vars
SpecDecode == InitDecodeRun /\ [][NextDecode]_vars
SpecSerial == InitSerial /\ [][NextSerial]_vars
SpecOmp == InitOmp /\ [][NextOmp]_vars
SpecMpi == InitMpi /\ [][NextMpi]_vars
SpecCuda == InitCuda /\ [][NextCuda]_vars
\* The two programs that run on the host alone: serial and OpenMP.
SpecCpu == (InitSerial \/ InitOmp) /\ [][NextSerial \/ NextOmp]_vars
\* The two programs whose workers can own nothing: MPI and CUDA.
SpecMpiCuda == (InitMpi \/ InitCuda) /\ [][NextMpi \/ NextCuda]_vars
\* The four search programs.
SpecSearch ==
    /\ InitSerial \/ InitOmp \/ InitMpi \/ InitCuda
    /\ [][NextSerial \/ NextOmp \/ NextMpi \/ NextCuda]_vars
\* The three programs that print progress: serial, OpenMP and MPI.
SpecProgress ==
    (InitSerial \/ InitOmp \/ InitMpi) /\ [][NextSerial \/ NextOmp \/ NextMpi]_vars
\* The two programs whose workers share a found flag: OpenMP and CUDA.
SpecOmpCuda == (InitOmp \/ InitCuda) /\ [][NextOmp \/ NextCuda]_vars
\* The MPI program together with the keyspace functions it calls.
SpecMpiCall == (InitMpi \/ InitCallRun) /\ [][NextMpi \/ NextCall]_vars


\* ------------------------------------------------------------------------
\* Properties
\* ------------------------------------------------------------------------
\* The fingerprint of a reported string.
fingerprint(str) == IF str \in DOMAIN md5 THEN md5[str] ELSE OTHER_DIGEST

\* The candidate of an index, as a C string.
decode(index) ==
    CString(number_to_password(index, Buffer(MAX_PASSWORD_LENGTH + 1), password_length))

AllRanksDone == \A r \in Ranks : m_pc[r] = "done"

\* C1 (as claimed): in the serial, OpenMP and MPI programs, when some index
\* of the keyspace has the target's fingerprint, a finished run has reported
\* found (serial and OpenMP return 1, some MPI rank returns 1) and every
\* reported candidate has the target's fingerprint.
C1_Correctness ==
    /\ (variant = "serial" /\ s_pc = "done" /\ Matching # {})
          => /\ s_ret = 1
             /\ s_out.status = "found"
             /\ fingerprint(s_out.password) = target_hash
    /\ (variant = "openmp" /\ o_ret # NOT_RETURNED /\ Matching # {})
          => /\ o_ret = 1
             /\ o_out.status = "found"
             /\ fingerprint(o_out.password) = target_hash
    /\ (variant = "mpi" /\ AllRanksDone /\ Matching # {})
          => /\ \E r \in Ranks : m_ret[r] = 1
             /\ \A r \in Ranks : m_ret[r] = 1 => fingerprint(m_reported[r]) = target_hash

\* C2: in the serial and OpenMP programs, when no index of the keyspace has
\* the target's fingerprint, the function returns 0 and the total attempts it
\* reports are exactly the size of the keyspace, for any number of threads.
C2_Completeness ==
    /\ (variant = "serial" /\ s_pc = "done" /\ Matching = {})
          => /\ s_ret = 0
             /\ s_out = [status |-> "not found", attempts |-> total_combinations]
    /\ (variant = "openmp" /\ o_ret # NOT_RETURNED /\ Matching = {})
          => /\ o_ret = 0
             /\ o_out = [status |-> "not found", attempts |-> total_combinations]

\* C2 witness: a two-thread OpenMP run over a keyspace without a match has
\* returned, with both threads having hashed candidates.
C2_Witness ==
    /\ variant = "openmp"
    /\ omp_threads >= 2
    /\ Matching = {}
    /\ o_ret = 0
    /\ \A t \in Threads : o_evaluated[t] >= 1

\* C3: the index sets the MPI ranks visit are pairwise disjoint, rank w
\* visits only indices congruent to w modulo world_size, and when the whole
\* keyspace is searched (no match) rank w has visited exactly those, so the
\* union is [0, total).
C3_StridedPartition ==
    variant = "mpi" =>
        /\ \A r \in Ranks : \A k \in m_visited[r] :
               k < total_combinations /\ k % world_size = r
        /\ \A r1, r2 \in Ranks : r1 # r2 => m_visited[r1] \cap m_visited[r2] = {}
        /\ (AllRanksDone /\ Matching = {}) =>
               /\ \A r \in Ranks :
                     m_visited[r] =
                         { k \in 0..(total_combinations - 1) : k % world_size = r }
               /\ UNION { m_visited[r] : r \in Ranks } = 0..(total_combinations - 1)

\* C3 witness: two or more ranks have finished a keyspace without a match in
\* which every rank owns at least two indices.
C3_Witness ==
    /\ variant = "mpi"
    /\ world_size >= 2
    /\ Matching = {}
    /\ AllRanksDone
    /\ \A r \in Ranks : Cardinality(m_visited[r]) >= 2

\* C4 (as claimed): for every launch configuration (threads_per_block >= 1,
\* num_blocks 0 or positive) the runs of the lanes are pairwise disjoint and
\* cover [0, total_combinations): no index is visited by two lanes, and a
\* kernel that ran to the end without a match has visited every index.
C4_CudaPartition ==
    variant = "cuda" =>
        /\ \A l1, l2 \in Lanes : l1 # l2 => k_visited[l1] \cap k_visited[l2] = {}
        /\ (h_pc = "done" /\ Matching = {}) =>
               UNION { k_visited[l] : l \in Lanes } = 0..(total_combinations - 1)

\* C5: number_to_password and index_to_password map the indices of the
\* keyspace to pairwise distinct strings of exactly `length` symbols of the
\* alphabet, and every such string is the image of exactly one index.
C5_Bijection ==
    variant = "decode" =>
        \A table \in {dec_table, idx_table} :
            LET n == Len(table)
            IN  /\ \A k \in 1..n : table[k] \in Candidates(password_length)
                /\ \A k \in 1..(n - 1) : table[k] # table[n]
                /\ n = total_combinations =>
                       \A str \in Candidates(password_length) :
                           Cardinality({ k \in 1..n : table[k] = str }) = 1

\* C5 witness: the keyspace of the two-symbol candidates over all of a..z
\* has been enumerated to the end.
C5_Witness ==
    /\ variant = "decode"
    /\ charset_size = CHARSET_SIZE
    /\ password_length >= 2
    /\ Len(dec_table) = total_combinations
    /\ Len(idx_table) = total_combinations

\* C6: at most one lane gets 0 from atomicCAS(found_flag, 0, 1), only such a
\* lane is in the code that writes found_at_index and result_password, and
\* when the host has read found = 1 its result_password is the candidate of
\* its found_at_index and has the target's fingerprint.
C6_GuardedWinner ==
    variant = "cuda" =>
        /\ Cardinality(k_winners) <= 1
        /\ \A l \in Lanes :
               k_pc[l] \in {"write_index", "write_password"} => l \in k_winners
        /\ (h_pc = "done" /\ h_found = 1) =>
               /\ CString(h_result_password) = decode(h_found_at_index)
               /\ fingerprint(CString(h_result_password)) = target_hash

\* C6 witness: the host has read found = 1 after two different lanes each
\* evaluated a candidate that has the target's fingerprint.
C6_Witness ==
    /\ variant = "cuda"
    /\ h_pc = "done"
    /\ h_found = 1
    /\ \E l1, l2 \in Lanes :
          /\ l1 # l2
          /\ k_visited[l1] \cap Matching # {}
          /\ k_visited[l2] \cap Matching # {}

\* C7 (as claimed): after the parallel region the OpenMP result is one
\* consistent pair: found_password is the candidate of found_at, and it has
\* the target's fingerprint.
C7_IdempotentWinner ==
    (variant = "openmp" /\ o_ret = 1) =>
        /\ o_out.password = decode(o_found_at)
        /\ fingerprint(o_out.password) = target_hash

\* C8 (as claimed): at most one MPI rank takes the found path (prints the
\* password, sends the termination message, returns 1).
C8_SingleWinner ==
    variant = "mpi" =>
        Cardinality({ r \in Ranks : m_reported[r] # << >> }) <= 1

\* A rank that left the loop at a poll: it returned before its partition
\* was exhausted and without a match of its own.
MpiCancelled(r) ==
    /\ m_pc[r] = "done"
    /\ m_i[r] < total_combinations
    /\ m_reported[r] = << >>

C10_NoCandidateAfterFlag ==
    variant = "cuda" => \A l \in Lanes : k_late[l] = 0

\* C11 (as claimed): after some thread has set found = 1, every other thread
\* evaluates at most one further candidate before it leaves the loop, with
\* cancellation activated and without; so with one matching index the
\* omp_threads - 1 other threads together hash at most omp_threads - 1
\* candidates while found is 1.
C11_OmpCancelLatency ==
    (variant = "openmp" /\ Cardinality(Matching) = 1) => o_after <= omp_threads - 1

\* C12 (as claimed): no rank blocks forever in mpi_crack: as long as some
\* rank has not returned, some rank can take a step (in particular, a rank
\* inside MPI_Send is never left waiting for a peer that will not receive).
C12_NeverBlocked ==
    variant = "mpi" => (AllRanksDone \/ ENABLED NextMpi)

\* C13 (as claimed): the final report is produced only after every worker
\* has stopped: OpenMP reports after all threads have left the parallel
\* region, the CUDA host copies the flag and the result back after every lane
\* has finished, and MPI rank 0 prints the elapsed time after every rank has
\* returned from mpi_crack.
C13_ReportAfterWorkers ==
    /\ (variant = "openmp" /\ o_ret # NOT_RETURNED) => \A t \in Threads : o_pc[t] = "end"
    /\ (variant = "cuda" /\ h_pc = "done") => \A l \in Lanes : k_pc[l] = "done"
    /\ (variant = "mpi" /\ m_elapsed_printed) => AllRanksDone

\* The sum of the counts last received from the workers p, p + 1, ...
RECURSIVE LastReceivedFrom(_)
LastReceivedFrom(p) ==
    IF p >= world_size THEN 0 ELSE m_last[p] + LastReceivedFrom(p + 1)

\* C14 (as claimed): the totals rank 0 prints at successive polls never
\* decrease, and each one is rank 0's own count plus, for every worker, the
\* last count received from it (a worker without a new message contributes
\* its last received count, not zero).
C14_ProgressMonotone ==
    [][ (variant = "mpi" /\ m_pc[0] = "collect" /\ m_pc'[0] = "guess") =>
            /\ (m_progress # NOTHING_PRINTED => m_progress' >= m_progress)
            /\ m_progress' = m_counter[0] + LastReceivedFrom(1) ]_vars

\* The sum of a per-thread counter over the threads t, t + 1, ...
RECURSIVE SumFrom(_, _)
SumFrom(counter, t) ==
    IF t >= omp_threads THEN 0 ELSE counter[t] + SumFrom(counter, t + 1)

\* The evaluations a thread has counted locally and not yet added to
\* `attempts` (after the final flush local_attempts is dead).
OmpPending == [t \in Threads |-> IF o_pc[t] = "end" THEN 0 ELSE o_local_attempts[t]]

\* C15: the shared OpenMP counter `attempts` never decreases; every evaluated
\* candidate is counted exactly once, in its thread's local_attempts or in
\* attempts; and after the parallel region (also when the loop was left
\* through the match/cancel path) attempts is the number of candidates all
\* threads evaluated together.
C15_AttemptAccounting ==
    /\ [](variant = "openmp" =>
            /\ o_attempts + SumFrom(OmpPending, 0) = SumFrom(o_evaluated, 0)
            /\ (\A t \in Threads : o_pc[t] = "end") =>
                   o_attempts = SumFrom(o_evaluated, 0))
    /\ [][variant = "openmp" => o_attempts' >= o_attempts]_vars

\* C15 witness: a two-thread run with cancellation activated has left the
\* loop through the match path and has reported, after a thread flushed its
\* local counter at the progress interval and another kept a remainder.
C15_Witness ==
    /\ variant = "openmp"
    /\ omp_threads >= 2
    /\ omp_cancellation
    /\ o_ret = 1
    /\ o_progress # NOTHING_PRINTED
    /\ \E t \in Threads : o_evaluated[t] % PROGRESS_INTERVAL # 0

\* ------------------------------------------------------------------------
\* C16: in every variant a typed password with a character outside a..z, or
\* longer than MAX_PASSWORD_LENGTH, is rejected with a non-zero exit status
\* before the search is called, and a run that completes the search exits
\* with status 0.  (A process killed by a signal has a non-zero status.)
\* ------------------------------------------------------------------------
InvalidTarget(token) ==
    \/ Len(token) > MAX_PASSWORD_LENGTH
    \/ \E i \in 1..Len(token) : ~Lowercase(token[i])

C16_ValidationRejects ==
    variant = "main" =>
        /\ InvalidTarget(main_input) =>
              /\ ~main_called
              /\ main_pc = "exit" => main_exit # 0
        /\ (main_pc = "exit" /\ main_called) => main_exit = 0

\* ------------------------------------------------------------------------
\* C17: calculate_combinations(length) returns exactly CHARSET_SIZE^length
\* when that fits an unsigned long long, and fails (returns no value) when
\* it does not.
\* ------------------------------------------------------------------------
FitsULL(length) == KeyspaceWithin(ULL - 1, length)

C17_CombinationsOrOverflow ==
    (variant = "call" /\ f_pc # "combinations") =>
        IF FitsULL(password_length)
        THEN f_total = charset_size ^ password_length
        ELSE f_total = NOT_RETURNED

\* ------------------------------------------------------------------------
\* C18: number_to_password rejects an index that is not below
\* CHARSET_SIZE^length (an invalid index): it writes no candidate.
\* ------------------------------------------------------------------------
\* index >= CHARSET_SIZE^length.
IndexOutOfRange(index, length) == KeyspaceWithin(index, length)

C18_InvalidIndexRejected ==
    (variant = "call" /\ f_pc \in {"index", "done"}
        /\ IndexOutOfRange(f_index, password_length)) =>
            f_password = Buffer(MAX_PASSWORD_LENGTH + 1)

\* ------------------------------------------------------------------------
\* C19: mixed-radix decode, most significant digit first: for every length
\* L and index below CHARSET_SIZE^L, character j (0-based from the left) of
\* the decoded candidate is CHARSET[(index / CHARSET_SIZE^(L-1-j)) mod
\* CHARSET_SIZE], for number_to_password (serial, OpenMP, MPI) and
\* index_to_password (CUDA) alike; with L = 3, index 0 gives "aaa", 1 gives
\* "aab", 25 gives "aaz" and 26 gives "aba".
\* ------------------------------------------------------------------------
\* (index / CHARSET_SIZE^k) mod CHARSET_SIZE; the power is computed only
\* when it is at most index.
Digit(index, k) ==
    IF KeyspaceWithin(index, k)
    THEN (index \div (charset_size ^ k)) % charset_size
    ELSE 0

MixedRadix(index, length) == [j \in 1..length |-> CHARSET[Digit(index, length - j) + 1]]

C19_Examples ==
    [n \in {0, 1, 25, 26} |->
        CASE n = 0 -> << "a", "a", "a" >>
          [] n = 1 -> << "a", "a", "b" >>
          [] n = 25 -> << "a", "a", "z" >>
          [] n = 26 -> << "a", "b", "a" >>]

EmptyRanks(ranks, total) == { r \in 0..(ranks - 1) : ~(r < total) }

C21_EmptyPartitions ==
    /\ EmptyRanks(100, CHARSET_SIZE) = 26..99
    /\ Cardinality(EmptyRanks(100, CHARSET_SIZE)) = 74
    /\ variant = "mpi" =>
          \A r \in EmptyRanks(world_size, total_combinations) :
              /\ m_pc[r] \in {"loop", "done"}
              /\ m_pc[r] = "done" => m_ret[r] = 0
              /\ m_visited[r] = {}
              /\ m_counter[r] = 0
              /\ \A q \in Ranks : r \notin term_box[q]
    /\ variant = "cuda" =>
          \A l \in Lanes :
              thread_id(l) * passwords_per_thread >= total_combinations =>
                  /\ k_pc[l] \in {"start", "done"}
                  /\ k_visited[l] = {}
                  /\ l \notin k_winners

C21_Witness ==
    /\ variant = "mpi" /\ world_size > total_combinations
    /\ \A r \in Ranks : m_pc[r] = "done"
    /\ \E r \in Ranks : m_ret[r] = 1
    /\ \A r \in EmptyRanks(world_size, total_combinations) : m_ret[r] = 0

C21_WitnessCuda ==
    /\ variant = "cuda" /\ h_pc = "done" /\ h_ret = 1
    /\ \E l \in Lanes :
          /\ thread_id(l) * passwords_per_thread >= total_combinations
          /\ k_pc[l] = "done"

\* ------------------------------------------------------------------------
\* C22: example scenario.  For length 4 the keyspace has 456,976
\* candidates, and under the strided partition over 4 ranks the index that
\* decodes to "test" belongs to rank 3.  An MPI run in which exactly one
\* index matches ends with the owner of that index, and no other rank,
\* reporting found with the candidate of that index, after no more than
\* total candidate evaluations by all ranks together.
\* ------------------------------------------------------------------------
\* The rank that owns an index under the strided partition.
StrideOwner(index, ranks) == index % ranks

\* No rank can take a step: each has returned or waits in an MPI_Send whose
\* message nobody has received.
MpiRunEnded ==
    \A r \in Ranks :
        \/ m_pc[r] = "done"
        \/ m_pc[r] = "wait" /\ r \in term_box[m_p[r]]

RECURSIVE EvaluationsFrom(_)
EvaluationsFrom(r) ==
    IF r >= world_size THEN 0 ELSE Cardinality(m_visited[r]) + EvaluationsFrom(r + 1)

C22_ExampleScenario ==
    /\ (variant = "call" /\ f_pc = "done" /\ password_length = 4
            /\ f_index = CandidateIndex(ExampleCandidate)) =>
          /\ f_total = 456976
          /\ CString(f_password) = ExampleCandidate
          /\ StrideOwner(f_index, 4) = 3
    /\ (variant = "mpi" /\ Cardinality(Matching) = 1) =>
          LET k == CHOOSE i \in Matching : TRUE
              owner == StrideOwner(k, world_size)
          IN  /\ \A r \in Ranks \ {owner} : m_reported[r] = << >> /\ m_ret[r] # 1
              /\ m_reported[owner] \in {<< >>, decode(k)}
              /\ EvaluationsFrom(0) <= total_combinations
              /\ MpiRunEnded =>
                    /\ m_reported[owner] = decode(k)
                    /\ k \in m_visited[owner]

C22_Witness ==
    /\ variant = "mpi" /\ Cardinality(Matching) = 1
    /\ world_size >= 2 /\ password_length >= 2
    /\ AllRanksDone
    /\ LET k == CHOOSE i \in Matching : TRUE
       IN  /\ StrideOwner(k, world_size) = world_size - 1
           /\ k >= world_size
           /\ m_ret[world_size - 1] = 1
           /\ m_reported[world_size - 1] = decode(k)

\* ------------------------------------------------------------------------
\* C23: a worker failure is never reported as exhaustion: when the kernel
\* launch fails, crack_password_cuda returns a value different from the one
\* it returns for a search that checked every candidate and found no match
\* (which is 0, `return found` with found = 0).
\* ------------------------------------------------------------------------
C23_LaunchFailureDistinct ==
    (variant = "cuda" /\ h_pc = "done" /\ h_err # "cudaSuccess") => h_ret # 0

\* ------------------------------------------------------------------------
\* C24: serial search order.  crack_password_serial evaluates the indices
\* 0, 1, 2, ... in ascending order and stops at the first match: when a
\* match exists it reports the smallest matching index k, the candidate
\* decode(k) and "Found at attempt" k + 1, and no index above k is evaluated.
\* ------------------------------------------------------------------------
\* The smallest element of a non-empty set of indices.
Smallest(S) == CHOOSE k \in S : \A j \in S : k <= j

ExactThreadId(blockIdx, blockDim, threadIdx) ==
    AddLimbs(MulLimbs(Wide(blockIdx), blockDim, 0), threadIdx)

C26_LaunchDoesNotWrap ==
    (variant = "launch" /\ g_pc \in {"lane", "done"}) =>
        /\ g_blocks >= 1
        /\ Wide(g_blocks) = g_quotient
        /\ g_pc = "done" =>
              g_thread_id = ExactThreadId(g_blocks - 1, g_tpb, g_tpb - 1)

\* ------------------------------------------------------------------------
\* C25: cross-variant equivalence.  When exactly one index k matches the
\* target, the OpenMP program (any thread count, any interleaving) and the
\* CUDA program (auto-calculated blocks, any threads_per_block) report what
\* the serial program reports: found, the candidate decode(k) and "Found at
\* attempt" k + 1.
\* ------------------------------------------------------------------------
\* The report of crack_password_serial for a single matching index k.
SerialReport(k) == [status |-> "found", password |-> decode(k), attempt |-> k + 1]

C25_SameReportAsSerial ==
    Cardinality(Matching) = 1 =>
        LET k == CHOOSE i \in Matching : TRUE
        IN  /\ (variant = "serial" /\ s_pc = "done") => s_out = SerialReport(k)
            /\ (variant = "openmp" /\ o_ret # NOT_RETURNED) =>
                  o_ret = 1 /\ o_out = SerialReport(k)
            /\ (variant = "cuda" /\ num_blocks = 0 /\ h_pc = "done") =>
                  /\ h_ret = 1
                  /\ [status |-> "found",
                      password |-> CString(h_result_password),
                      attempt |-> h_found_at_index + 1] = SerialReport(k)

\* ------------------------------------------------------------------------
\* C27: candidate buffer bound.  For every password length main accepts
\* (1..MAX_PASSWORD_LENGTH), every call of number_to_password /
\* index_to_password writes its length symbols and the terminator inside
\* the caller's candidate buffer, in the serial, OpenMP, MPI and CUDA
\* programs.
\* ------------------------------------------------------------------------
C27_WritesInsideBuffer == variant = "call" => f_overrun = {}

\* ------------------------------------------------------------------------
\* C28: the termination flag is stable and only matchers write it.  In the
\* OpenMP and CUDA programs the found flag starts at 0, holds only 0 or 1,
\* is written only by a worker whose current candidate has the target's
\* fingerprint, and once 1 it never returns to 0.
\* ------------------------------------------------------------------------
\* One step of the OpenMP team: the threads that store to found in it are
\* at their comparison with a matching candidate; found changes by such a
\* store only and never leaves 1.
OmpFlagStep ==
    /\ \A t \in o_finders' \ o_finders : o_pc[t] = "eval" /\ o_i[t] \in Matching
    /\ o_found' # o_found => o_finders' # o_finders
    /\ o_found = 1 => o_found' = 1

\* One step of the grid: *found_flag changes only in the step of a lane that
\* is at its comparison with a matching candidate, and never leaves 1.
KernelFlagStep ==
    /\ d_found_flag' # d_found_flag =>
          \E l \in Lanes : /\ k_pc[l] = "eval"
                           /\ k_pc'[l] # "eval"
                           /\ k_current_index[l] \in Matching
    /\ d_found_flag = 1 => d_found_flag' = 1

C28_FlagStable ==
    /\ variant = "openmp" => o_found = 0
    /\ variant = "cuda" => d_found_flag = 0
    /\ [](/\ variant = "openmp" => o_found \in {0, 1}
          /\ variant = "cuda" => d_found_flag \in {0, 1})
    /\ [][/\ variant = "openmp" => OmpFlagStep
          /\ variant = "cuda" => KernelFlagStep]_vars

\* The flag is 1 while the finder and another thread are still in the loop.
C28_Witness ==
    /\ variant = "openmp"
    /\ o_found = 1
    /\ \E t \in o_finders : o_pc[t] = "strcpy" /\ o_i[t] \in Matching
    /\ \E u \in Threads \ o_finders : o_pc[u] = "eval"

\* The flag is 1 while its winner and another lane are still in the kernel.
C28_WitnessCuda ==
    /\ variant = "cuda"
    /\ d_found_flag = 1
    /\ \E l \in k_winners : k_pc[l] = "write_index"
    /\ \E l \in Lanes \ k_winners : k_pc[l] = "eval"

\* ------------------------------------------------------------------------
\* C29: progress never exceeds the keyspace.  In every reachable state of
\* the serial, OpenMP and MPI programs every progress figure displayed
\* (serial attempts, OpenMP attempts, total_progress of MPI rank 0) and the
\* final attempts count are at most the size of the keyspace.
\* ------------------------------------------------------------------------
\* The count a final report prints.
ReportedCount(out) ==
    IF out.status = "found" THEN out.attempt
    ELSE IF out.status = "not found" THEN out.attempts
    ELSE 0

C29_ProgressWithinKeyspace ==
    /\ variant = "serial" =>
          /\ s_attempts <= total_combinations
          /\ s_progress <= total_combinations
          /\ ReportedCount(s_out) <= total_combinations
    /\ variant = "openmp" =>
          /\ o_attempts <= total_combinations
          /\ o_progress <= total_combinations
          /\ ReportedCount(o_out) <= total_combinations
    /\ variant = "mpi" =>
          /\ m_total_progress <= total_combinations
          /\ m_progress <= total_combinations

\* A serial search that found nothing has printed its last progress line
\* and reports the whole keyspace as its attempts.
C29_Witness ==
    /\ variant = "serial"
    /\ s_pc = "done"
    /\ s_out.status = "not found"
    /\ s_out.attempts = total_combinations
    /\ s_progress = total_combinations

\* Rank 0 has printed a total that includes a worker's count and equals the
\* size of the keyspace.
C29_WitnessMpi ==
    /\ variant = "mpi"
    /\ world_size > 1
    /\ m_progress = total_combinations
    /\ m_progress > m_counter[0]

\* The OpenMP team found nothing and reports the whole keyspace.
C29_WitnessOmp ==
    /\ variant = "openmp"
    /\ omp_threads > 1
    /\ o_out.status = "not found"
    /\ o_out.attempts = total_combinations
    /\ o_progress # NOTHING_PRINTED

\* ------------------------------------------------------------------------
\* C30: decode is only called in range.  In every program and every run,
\* number_to_password / index_to_password is called only with an index
\* strictly below the size of the keyspace; a CUDA lane whose run extends
\* past the end of the keyspace stops at the bound instead of decoding.
\* ------------------------------------------------------------------------
InKeyspace(S) == \A index \in S : index < total_combinations

\* The lane's run reached the end of the keyspace before its
\* passwords_per_thread candidates were done, and the lane stopped there.
StoppedAtBound(l) ==
    /\ k_pc[l] = "done"
    /\ k_i[l] > 0
    /\ k_i[l] < passwords_per_thread
    /\ k_my_start[l] + k_i[l] = total_combinations

C30_DecodeInRange ==
    /\ [](/\ variant = "openmp" =>
                \A t \in Threads : o_pc[t] = "eval" => o_i[t] < total_combinations
          /\ variant = "mpi" =>
                \A r \in Ranks : /\ m_pc[r] = "guess" => m_i[r] < total_combinations
                                 /\ InKeyspace(m_visited[r])
          /\ variant = "cuda" =>
                \A l \in Lanes :
                    /\ k_pc[l] = "eval" => k_current_index[l] < total_combinations
                    /\ InKeyspace(k_visited[l])
                    /\ StoppedAtBound(l) => k_visited[l] =
                           k_my_start[l]..(total_combinations - 1))
    /\ [][variant = "serial" /\ s_guess' # s_guess => s_i < total_combinations]_vars

\* With no match, the last lane has decoded the last candidate and stopped
\* at the bound with part of its run unused.
C30_Witness ==
    /\ variant = "cuda"
    /\ d_found_flag = 0
    /\ \E l \in Lanes : /\ StoppedAtBound(l)
                        /\ k_visited[l] = {total_combinations - 1}

\* ------------------------------------------------------------------------
\* C31: MPI progress send buffer discipline.  A non-zero rank never
\* overwrites local_count, and never returns from mpi_crack, while an
\* earlier MPI_Isend of local_count is still pending: every pending progress
\* send finds its buffer alive and holding the value that was sent.
\* ------------------------------------------------------------------------
C31_SendBufferDiscipline ==
    variant = "mpi" =>
        \A r \in Ranks \ {0} :
            \A j \in PendingSends(r) :
                /\ m_pc[r] # "done"
                /\ prog_box[r][j] = m_local_count[r]
====
